---- MODULE Spec2Model ----
(***************************************************************************)
(* QueueCTL: a SQLite-backed job queue with a pool of worker processes.    *)
(* The store (tables jobs, dlq, config, workers) is the only shared state; *)
(* every SQL statement, and every db.transaction block, is one atomic      *)
(* step.  Time is a clock of whole seconds.  The time columns that only    *)
(* the code writes hold strings produced by Date.toISOString, which        *)
(* compare as the instants they denote, and are kept as instants; run_at   *)
(* is also written with text that callers supply and is kept as text,      *)
(* which the claim statement compares as text.                             *)
(***************************************************************************)
EXTENDS Integers, Sequences, FiniteSets, TLC

\* ------------------------------------------------------------------ bounds
MaxTicks == 1         \* clock advances in one behaviour

\* ------------------------------------------------------- program constants
LOCK_SECONDS == 60        \* claimJob / refreshLock lease
REFRESH_SECONDS == 10     \* setInterval(refreshLock, 10000)
DEFAULT_MAX_RETRIES == 3  \* job.max_retries ?? 3
DEFAULT_PRIORITY == 0     \* job.priority ?? 0
DEFAULT_BASE == 2         \* getInt('backoff_base') || 2
EXIT_CODE == 1            \* err.code || 1
ACTIVE_SECONDS == 10      \* status: heartbeat within the last 10 seconds
COMMAND_TIMEOUT == 30     \* execAsync(command, { timeout: 30000 })
IDLE_SECONDS == 1         \* sleep(200): an idle loop iterates within a second

NULL_T == -1          \* a NULL timestamp
NULL_S == "NULL"      \* a NULL text
Absent == "absent"    \* an id the caller did not give
UNDEF == -1           \* a number the caller did not give
NaN == -1000000       \* the number NaN, outside the integers the model computes

\* ------------------------------------------------------------ input sets
\* The jobs producers submit: the argument of enqueue, run_at given as a delay
\* from the time of the call (NULL_T: none).
Requests ==
    { [id |-> "t1", command |-> "exit 1", max_retries |-> 2,
       priority |-> UNDEF, delay |-> NULL_T],
      [id |-> "t1", command |-> "exit 1", max_retries |-> 0,
       priority |-> 1, delay |-> NULL_T],
      [id |-> Absent, command |-> "echo ok", max_retries |-> UNDEF,
       priority |-> 1, delay |-> 1] }
\* The jobs of the priority scenario: lo is submitted with priority 1, hi with
\* priority 10, eq with the priority of lo; none is scheduled.
PriorityRequests ==
    { [id |-> "lo", command |-> "echo ok", max_retries |-> UNDEF,
       priority |-> 1, delay |-> NULL_T],
      [id |-> "hi", command |-> "echo ok", max_retries |-> UNDEF,
       priority |-> 10, delay |-> NULL_T],
      [id |-> "eq", command |-> "echo ok", max_retries |-> UNDEF,
       priority |-> 1, delay |-> NULL_T] }
\* a job submitted without a command
NoCommandRequests ==
    { [id |-> "t3", command |-> NULL_S, max_retries |-> UNDEF,
       priority |-> UNDEF, delay |-> NULL_T] }
\* The job of the tuning scenario: it fails, and is submitted without a retry
\* budget and without a schedule.
TuneRequests ==
    { [id |-> "b1", command |-> "exit 1", max_retries |-> UNDEF,
       priority |-> UNDEF, delay |-> NULL_T] }
\* what the operator sets in the tuning scenario: config set <key> <value>
TuneSettings ==
    { <<"backoff_base", "3">>, <<"backoff_base", "0">>,
      <<"backoff_base", "abc">>, <<"max_retries", "2">> }
\* The keys and values of the config scenario: the two keys that have a
\* default and one that has none; values as the command line hands them over
ConfigKeys == {"max_retries", "backoff_base", "poll_interval"}
ConfigValues == {"5", "12", "abc", "7x", "-4", ""}
\* The command lines of the CLI scenario: the JSON argument of queuectl
\* enqueue (an object, none, or text that does not parse) and the flags passed
\* with it (Absent: not passed).  The three --run-at texts denote the same
\* instant, one second after the start of the clock: as toISOString writes
\* it, without milliseconds, and in local time with an offset.
CliPayloads ==
    { [kind |-> "object", id |-> "c1", command |-> "echo ok",
       max_retries |-> 2, priority |-> 7, run_at |-> Absent],
      [kind |-> "none", id |-> Absent, command |-> NULL_S,
       max_retries |-> UNDEF, priority |-> UNDEF, run_at |-> Absent],
      [kind |-> "invalid", id |-> Absent, command |-> NULL_S,
       max_retries |-> UNDEF, priority |-> UNDEF, run_at |-> Absent] }
CliOptions ==
    { [id |-> Absent, command |-> Absent, maxRetries |-> Absent,
       priority |-> Absent, runAt |-> Absent],
      [id |-> Absent, command |-> Absent, maxRetries |-> "1",
       priority |-> "5", runAt |-> Absent],
      [id |-> "c2", command |-> "exit 1", maxRetries |-> Absent,
       priority |-> Absent, runAt |-> "2026-01-01T00:00:01.000Z"],
      [id |-> "c2", command |-> "exit 1", maxRetries |-> Absent,
       priority |-> Absent, runAt |-> "2026-01-01T00:00:01Z"],
      [id |-> "c2", command |-> "exit 1", maxRetries |-> Absent,
       priority |-> Absent, runAt |-> "2025-12-31T19:00:01.0000000-05:00"] }
GenIds == {"job_g1"}      \* what nanoid(8) may return
JobIds ==
    (({r.id : r \in Requests \cup PriorityRequests \cup NoCommandRequests
                          \cup TuneRequests}
         \cup {p.id : p \in CliPayloads} \cup {o.id : o \in CliOptions})
        \ {Absent}) \cup GenIds
Workers == {"w1", "w2"}
\* the priority scenario starts one worker
OrderWorkers == {"w1"}
\* process.env.SINGLE_RUN === '1': w2 is started with it, w1 without
SINGLE_RUN == [w \in Workers |-> w = "w2"]
\* w1 is the long-running worker: it is the one that is sent signals and the
\* one that may die; w2 is the one-shot worker of the test scripts
Signalled == {"w1"}
Crashable == {"w1"}
BaseValues == {"3"}
\* the operator processes that call dlq retry; op1 is the one of the
\* scenarios in which the calls do not overlap
Operators == {"op1", "op2"}
SoleOperator == {"op1"}

\* ---------------------------------------------------------------- state
VARIABLES
    jobs,      \* table jobs: id -> row
    dlq,       \* table dlq: dlq id -> row
    config,    \* table config: key -> value
    workersTbl,\* table workers: worker id -> row
    now,       \* wall clock, seconds
    ticks,     \* number of clock advances so far
    pc,        \* per worker process: position in runWorkerLoop
    STOPPING,  \* per worker process: stop flag
    currentJob,\* per worker process: the row processJob works on
    base,      \* per worker process: backoff base read for the current job
    refreshAt, \* per worker process: next firing of the refresher interval
    execs,     \* history: job id -> outcomes of the executions of its command
    claims,    \* history: job id -> number of claims that changed its row
    taken,     \* history: worker -> number of claims it made that changed a row
    enqueued,  \* history: the ids enqueue has returned
    retried,   \* history: the ids dlqRetry has returned
    statusCall,\* the status() call in progress: what it has read so far
    retryCall, \* per operator: the dlq row its dlqRetry call has read
    polled,    \* history: the first status() call, the time of its SELECT
               \* on workers and its answer, until the store is written
    ret        \* result of the last queue API call

vars == <<jobs, dlq, config, workersTbl, now, ticks, pc, STOPPING,
          currentJob, base, refreshAt, execs, claims, taken, enqueued,
          retried, statusCall, retryCall, polled, ret>>

NoJob == [id |-> NULL_S]
\* no call in progress
NoCall == [step |-> "none"]
NoRow == [id |-> NULL_S]
\* no status() call has been made
NoPoll == [stage |-> "none"]
\* the jobs or the workers table has been written since the first status()
\* call began
Spoilt == [stage |-> "spoilt"]
\* what a call hands back: a value, or the message of the error it throws
Returned(op, arg, value) ==
    [op |-> op, arg |-> arg, ok |-> TRUE, value |-> value, error |-> NULL_S]
Thrown(op, arg, error) ==
    [op |-> op, arg |-> arg, ok |-> FALSE, value |-> NULL_S, error |-> error]
NoRet == [op |-> "none", arg |-> NULL_S, ok |-> TRUE, value |-> NULL_S,
          error |-> NULL_S]

\* (variant: x || d, which also replaces 0)
OrDefault_Or(x, d) == IF x = UNDEF \/ x = 0 THEN d ELSE x

\* x ?? d
OrDefault(x, d) == IF x = UNDEF THEN d ELSE x

\* ------------------------------------------------------------- util.js
addSeconds(iso, seconds) == iso + seconds

\* (variant: the delay grows linearly)
backoff_Linear(b, attempts) == b * attempts

RECURSIVE backoff(_, _)
backoff(b, attempts) == IF attempts = 0 THEN 1 ELSE b * backoff(b, attempts - 1)

\* ------------------------------------------------------------ config.js
DEFAULTS == [max_retries |-> "3", backoff_base |-> "2"]

get(key) ==
    IF key \in DOMAIN config THEN config[key]
    ELSE IF key \in DOMAIN DEFAULTS THEN DEFAULTS[key] ELSE NULL_S

\* parseInt(val, 10): leading blanks are skipped, a sign is read, then the
\* decimal digits up to the first other character; NaN when there is no digit
IsDigit(c) == \E d \in 0..9 : ToString(d) = c
DigitOf(c) == CHOOSE d \in 0..9 : ToString(d) = c

RECURSIVE TrimStart(_)
TrimStart(str) ==
    IF str # "" /\ Head(str) = " " THEN TrimStart(Tail(str)) ELSE str

RECURSIVE DigitPrefix(_)
DigitPrefix(str) ==
    IF str # "" /\ IsDigit(Head(str))
    THEN <<DigitOf(Head(str))>> \o DigitPrefix(Tail(str))
    ELSE << >>

RECURSIVE Decimal(_)
Decimal(ds) ==
    IF ds = << >> THEN 0
    ELSE 10 * Decimal(SubSeq(ds, 1, Len(ds) - 1)) + ds[Len(ds)]

parseInt(val) ==
    LET t == TrimStart(val)
        signed == t # "" /\ Head(t) \in {"-", "+"}
        digits == DigitPrefix(IF signed THEN Tail(t) ELSE t)
    IN  IF digits = << >> THEN NaN
        ELSE IF signed /\ Head(t) = "-" THEN 0 - Decimal(digits)
        ELSE Decimal(digits)

\* getInt(key): parseInt(val ?? '0', 10)
getInt(key) == LET val == get(key) IN parseInt(IF val = NULL_S THEN "0" ELSE val)

\* x || d on a number: 0 and NaN are replaced
OrElse(x, d) == IF x = 0 \/ x = NaN THEN d ELSE x

\* ------------------------------------------------------- timestamps as text
\* Date.prototype.toISOString for the instant t seconds after the start of
\* the clock, which is 2026-01-01T00:00:00.000Z (t below one hour)
TwoDigits(n) == IF n < 10 THEN "0" \o ToString(n) ELSE ToString(n)
toISOString(t) ==
    "2026-01-01T00:" \o TwoDigits(t \div 60) \o ":" \o TwoDigits(t % 60)
        \o ".000Z"

\* nowISO()
nowISO == toISOString(now)

\* the byte of a character of a timestamp
Code(c) ==
    CASE c = "+" -> 43
      [] c = "-" -> 45
      [] c = "." -> 46
      [] c = ":" -> 58
      [] c = "T" -> 84
      [] c = "Z" -> 90
      [] OTHER -> 48 + DigitOf(c)

\* a <= b on two TEXT values in SQLite: byte by byte, a prefix comes first
RECURSIVE TextLe(_, _)
TextLe(a, b) ==
    IF a = "" THEN TRUE
    ELSE IF b = "" THEN FALSE
    ELSE IF Head(a) = Head(b) THEN TextLe(Tail(a), Tail(b))
    ELSE Code(Head(a)) < Code(Head(b))

\* the days of the clock: the first day and the day before it
DayOf(date) == IF date = "2026-01-01" THEN 0 ELSE 0 - 1

RECURSIVE SkipDigits(_)
SkipDigits(str) ==
    IF str # "" /\ IsDigit(Head(str)) THEN SkipDigits(Tail(str)) ELSE str

\* new Date(iso).getTime(), in seconds from the start of the clock, for
\* YYYY-MM-DDTHH:MM:SS, an optional fraction, and Z or an offset +HH:MM / -HH:MM
DateParse(iso) ==
    LET two(i) == Decimal(DigitPrefix(SubSeq(iso, i, i + 1)))
        local == DayOf(SubSeq(iso, 1, 10)) * 86400
                     + two(12) * 3600 + two(15) * 60 + two(18)
        rest == SubSeq(iso, 20, Len(iso))
        zone == IF rest # "" /\ Head(rest) = "." THEN SkipDigits(Tail(rest))
                ELSE rest
        offset == IF zone = "Z" THEN 0
                  ELSE Decimal(DigitPrefix(SubSeq(zone, 2, 3))) * 3600
                           + Decimal(DigitPrefix(SubSeq(zone, 5, 6))) * 60
    IN  IF zone # "" /\ Head(zone) = "-" THEN local + offset ELSE local - offset

\* ------------------------------------------------------------- queue.js
DlqId(jobId) == "dlq_" \o jobId

\* INSERT INTO dlq
InsertDlq(tbl, row) == (row.id :> row) @@ tbl

JSONstringify(job) == <<job.id, job.command, job.max_retries, job.priority>>
JSONparse(payload) ==
    [id |-> payload[1], command |-> payload[2],
     max_retries |-> payload[3], priority |-> payload[4]]

NewRow(id, command, maxRetries, created, runAt, priority) ==
    [id |-> id, command |-> command, state |-> "pending", attempts |-> 0,
     max_retries |-> maxRetries, created_at |-> created, updated_at |-> created,
     run_at |-> runAt, last_error |-> NULL_S, priority |-> priority,
     locked_by |-> NULL_S, lock_until |-> NULL_T]

\* INSERT INTO jobs; the primary key rejects an id that is already there
InsertJob(tbl, row) == (row.id :> row) @@ tbl
UNIQUE_JOBS == "UNIQUE constraint failed: jobs.id"
NOT_NULL_COMMAND == "NOT NULL constraint failed: jobs.command"

\* (variants: the table has no primary key, the command may be null)
InsertError_NoPrimaryKey(tbl, row) ==
    IF row.command = NULL_S THEN NOT_NULL_COMMAND ELSE NULL_S
InsertError_Nullable(tbl, row) ==
    IF row.id \in DOMAIN tbl THEN UNIQUE_JOBS ELSE NULL_S

\* the constraint of the jobs table an INSERT of the row violates (NULL_S:
\* none): command TEXT NOT NULL, id TEXT PRIMARY KEY
InsertError(tbl, row) ==
    IF row.command = NULL_S THEN NOT_NULL_COMMAND
    ELSE IF row.id \in DOMAIN tbl THEN UNIQUE_JOBS
    ELSE NULL_S

Init ==
    /\ jobs = << >>
    /\ dlq = << >>
    /\ config = << >>
    /\ workersTbl = << >>
    /\ now = 0
    /\ ticks = 0
    /\ pc = [w \in Workers |-> "off"]
    /\ STOPPING = [w \in Workers |-> FALSE]
    /\ currentJob = [w \in Workers |-> NoJob]
    /\ base = [w \in Workers |-> 0]
    /\ refreshAt = [w \in Workers |-> NULL_T]
    /\ execs = [j \in JobIds |-> << >>]
    /\ claims = [j \in JobIds |-> 0]
    /\ taken = [w \in Workers |-> 0]
    /\ enqueued = {}
    /\ retried = {}
    /\ statusCall = NoCall
    /\ retryCall = [c \in Operators |-> NoRow]
    /\ polled = NoPoll
    /\ ret = NoRet

workerVars == <<pc, STOPPING, currentJob, base, refreshAt>>
histVars == <<execs, claims, taken>>
ledger == <<enqueued, retried>>
callVars == <<statusCall, retryCall, polled>>

\* what is kept of the first status() call after a statement of another
\* operation: nothing once the statement has changed the jobs or the workers
\* table
Noted ==
    IF /\ polled.stage \in {"begun", "read", "answered"}
       /\ (jobs' # jobs \/ workersTbl' # workersTbl)
    THEN Spoilt ELSE polled

\* enqueue(job): job.id, job.max_retries, job.priority and job.run_at may be
\* missing; a missing id is replaced by a generated one
enqueue(job, nanoid) ==
    LET id == IF job.id = Absent THEN nanoid ELSE job.id
        maxRetries == OrDefault(job.max_retries, DEFAULT_MAX_RETRIES)
        priority == OrDefault(job.priority, DEFAULT_PRIORITY)
        runAt == IF job.run_at \in {Absent, NULL_S, ""} THEN NULL_S
                 ELSE job.run_at
        row == NewRow(id, job.command, maxRetries, now, runAt, priority)
    IN  /\ IF InsertError(jobs, row) # NULL_S
           THEN /\ ret' = Thrown("enqueue", id, InsertError(jobs, row))
                /\ UNCHANGED <<jobs, enqueued>>
           ELSE /\ jobs' = InsertJob(jobs, row)
                /\ enqueued' = enqueued \cup {id}
                /\ ret' = Returned("enqueue", id, id)
        /\ UNCHANGED <<dlq, config, workersTbl, now, ticks, retried>>
        /\ UNCHANGED workerVars
        /\ UNCHANGED histVars
        /\ UNCHANGED <<statusCall, retryCall>>
        /\ polled' = Noted

\* a producer's call; nanoid returns an id that is not in use
Enqueue ==
    \E r \in Requests, nanoid \in GenIds :
        /\ r.id = Absent => nanoid \notin DOMAIN jobs
        /\ enqueue([id |-> r.id, command |-> r.command,
                    max_retries |-> r.max_retries, priority |-> r.priority,
                    run_at |-> IF r.delay = NULL_T THEN NULL_S
                               ELSE toISOString(addSeconds(now, r.delay))],
                   nanoid)

\* a producer's call with a job that has no command
EnqueueNoCommand ==
    \E r \in NoCommandRequests, nanoid \in GenIds :
        enqueue([id |-> r.id, command |-> r.command,
                 max_retries |-> r.max_retries, priority |-> r.priority,
                 run_at |-> NULL_S],
                nanoid)

\* --------------------------------------------------------------- cli.js
\* .option('--max-retries <n>', ..., '3') and .option('--priority <n>', ...,
\* '0'): what the options object holds for a flag that was not passed
OPTION_DEFAULTS == [maxRetries |-> "3", priority |-> "0"]

\* the options object handed to the action: the flags, the declared defaults
\* in place of the flags not passed
OptionsObject(flags) ==
    [id |-> flags.id, command |-> flags.command,
     maxRetries |-> IF flags.maxRetries = Absent
                    THEN OPTION_DEFAULTS.maxRetries ELSE flags.maxRetries,
     priority |-> IF flags.priority = Absent
                  THEN OPTION_DEFAULTS.priority ELSE flags.priority,
     runAt |-> flags.runAt]

\* if (options.x): a string is truthy unless it is missing or empty
Given(str) == str # Absent /\ str # ""

\* the job object the enqueue command builds from the parsed JSON argument
\* ({} when there is none) and the options
CliJob(payload, options) ==
    [id |-> IF Given(options.id) THEN options.id ELSE payload.id,
     command |-> IF Given(options.command) THEN options.command
                 ELSE payload.command,
     max_retries |-> IF Given(options.maxRetries)
                     THEN parseInt(options.maxRetries)
                     ELSE payload.max_retries,
     priority |-> IF Given(options.priority) THEN parseInt(options.priority)
                  ELSE payload.priority,
     run_at |-> IF Given(options.runAt) THEN options.runAt
                ELSE payload.run_at]

\* the action of the enqueue command: JSON.parse, the options, the check of
\* the command, enqueue(job); the two failures end the process with an
\* error and nothing stored
cliEnqueue(payload, flags, nanoid) ==
    LET job == CliJob(payload, OptionsObject(flags))
    IN  IF payload.kind = "invalid" \/ job.command = NULL_S
        THEN /\ ret' = Thrown("cli enqueue", job.id,
                              IF payload.kind = "invalid" THEN "Invalid JSON"
                              ELSE "Error: --command is required")
             /\ UNCHANGED <<jobs, dlq, config, workersTbl, now, ticks>>
             /\ UNCHANGED workerVars
             /\ UNCHANGED histVars
             /\ UNCHANGED ledger
             /\ UNCHANGED callVars
        ELSE /\ job.id = Absent => nanoid \notin DOMAIN jobs
             /\ enqueue(job, nanoid)

\* an operator's queuectl enqueue
CliEnqueue ==
    \E payload \in CliPayloads, flags \in CliOptions, nanoid \in GenIds :
        cliEnqueue(payload, flags, nanoid)

\* a producer's call in the tuning scenario
EnqueueTune ==
    \E r \in TuneRequests, nanoid \in GenIds :
        enqueue([id |-> r.id, command |-> r.command,
                 max_retries |-> r.max_retries, priority |-> r.priority,
                 run_at |-> NULL_S],
                nanoid)

\* a producer's call in the priority scenario
EnqueueOrder ==
    \E r \in PriorityRequests, nanoid \in GenIds :
        enqueue([id |-> r.id, command |-> r.command,
                 max_retries |-> r.max_retries, priority |-> r.priority,
                 run_at |-> NULL_S],
                nanoid)

\* (variant: the missing row goes unnoticed)
NotFound_Silent(id) == Returned("dlqRetry", id, NULL_S)

\* dlqRetry: if (!row) throw new Error(`DLQ item not found: ${id}`)
NotFound(id) == Thrown("dlqRetry", id, "DLQ item not found")

\* (variant: the two statements run outside a transaction)
DlqRetryTx_NoRollback(id, payload) ==
    LET row == NewRow(payload.id, payload.command,
                      OrDefault(payload.max_retries, DEFAULT_MAX_RETRIES),
                      now, NULL_S,
                      OrDefault(payload.priority, DEFAULT_PRIORITY))
        deleted == [d \in DOMAIN dlq \ {id} |-> dlq[d]]
    IN  IF payload.id \in DOMAIN jobs
        THEN [jobs |-> jobs, dlq |-> deleted, ok |-> FALSE]
        ELSE [jobs |-> InsertJob(jobs, row), dlq |-> deleted, ok |-> TRUE]

\* (variant: the INSERT replaces the row of the dead job)
DlqRetryTx_Replace(id, payload) ==
    LET row == NewRow(payload.id, payload.command,
                      OrDefault(payload.max_retries, DEFAULT_MAX_RETRIES),
                      now, NULL_S,
                      OrDefault(payload.priority, DEFAULT_PRIORITY))
        deleted == [d \in DOMAIN dlq \ {id} |-> dlq[d]]
    IN  [jobs |-> InsertJob(jobs, row), dlq |-> deleted, ok |-> TRUE]

\* dlqRetry: the db.transaction block, DELETE FROM dlq then INSERT INTO jobs;
\* an exception inside it rolls both statements back
DlqRetryTx(id, payload) ==
    LET row == NewRow(payload.id, payload.command,
                      OrDefault(payload.max_retries, DEFAULT_MAX_RETRIES),
                      now, NULL_S,
                      OrDefault(payload.priority, DEFAULT_PRIORITY))
        deleted == [d \in DOMAIN dlq \ {id} |-> dlq[d]]
    IN  IF payload.id \in DOMAIN jobs
        THEN [jobs |-> jobs, dlq |-> dlq, ok |-> FALSE]
        ELSE [jobs |-> InsertJob(jobs, row), dlq |-> deleted, ok |-> TRUE]

\* dlqRetry(id), first statement: the SELECT of the entry; no row: the call
\* throws.  The SELECT is not part of the transaction that follows, and
\* other processes may write between the two.
dlqRetrySelect(c, id) ==
    /\ retryCall[c] = NoRow
    /\ IF id \notin DOMAIN dlq
       THEN /\ ret' = NotFound(id)
            /\ UNCHANGED retryCall
       ELSE /\ retryCall' = [retryCall EXCEPT ![c] = dlq[id]]
            /\ ret' = NoRet
    /\ UNCHANGED <<jobs, dlq, config, workersTbl, now, ticks, statusCall,
                   polled>>
    /\ UNCHANGED workerVars
    /\ UNCHANGED histVars
    /\ UNCHANGED ledger

\* dlqRetry(id), the rest: JSON.parse of the row read, now = nowISO(), the
\* transaction, return payload.id
dlqRetryRun(c) ==
    /\ retryCall[c] # NoRow
    /\ LET id == retryCall[c].id
           payload == JSONparse(retryCall[c].payload)
           tx == DlqRetryTx(id, payload)
       IN  /\ jobs' = tx.jobs
           /\ dlq' = tx.dlq
           /\ retried' = IF tx.ok THEN retried \cup {payload.id} ELSE retried
           /\ ret' = IF tx.ok THEN Returned("dlqRetry", id, payload.id)
                     ELSE Thrown("dlqRetry", id, UNIQUE_JOBS)
    /\ retryCall' = [retryCall EXCEPT ![c] = NoRow]
    /\ UNCHANGED <<config, workersTbl, now, ticks, enqueued, statusCall>>
    /\ UNCHANGED workerVars
    /\ UNCHANGED histVars
    /\ polled' = Noted

\* the call of operator c, with the id of an entry or with one that may not
\* be there
dlqRetry(c) ==
    \/ \E id \in DOMAIN dlq \cup {"dlq_t1"} : dlqRetrySelect(c, id)
    \/ dlqRetryRun(c)

\* the operator's dlq retry calls, one after the other
DlqRetry == \E c \in SoleOperator : dlqRetry(c)

\* dlq retry calls of two operators, which may overlap
DlqRetryRace == \E c \in Operators : dlqRetry(c)

\* status(): SELECT state, COUNT(*) ... GROUP BY state, read into the map of
\* the five states
CountByState(tbl, state) ==
    Cardinality({id \in DOMAIN tbl : tbl[id].state = state})

\* status(): the workers whose heartbeat_at >= tenSecondsAgo
ActiveWorkers(tbl, t) ==
    Cardinality({w \in DOMAIN tbl : tbl[w].heartbeat_at >= t - ACTIVE_SECONDS})

\* (variant: only the pending rows that are due are looked at)
OldestPending_Due(tbl) ==
    LET pending == {id \in DOMAIN tbl :
                       /\ tbl[id].state = "pending"
                       /\ (tbl[id].run_at = NULL_S
                              \/ TextLe(tbl[id].run_at, nowISO))}
    IN  IF pending = {} THEN NULL_T
        ELSE CHOOSE c \in {tbl[id].created_at : id \in pending} :
                 \A id \in pending : c <= tbl[id].created_at

\* status(): SELECT created_at ... WHERE state='pending' ORDER BY created_at
\* ASC LIMIT 1, and oldestPending?.created_at || null
OldestPending(tbl) ==
    LET pending == {id \in DOMAIN tbl : tbl[id].state = "pending"}
    IN  IF pending = {} THEN NULL_T
        ELSE CHOOSE c \in {tbl[id].created_at : id \in pending} :
                 \A id \in pending : c <= tbl[id].created_at

\* (variant: the count of the failed rows is not read into the map)
statusMap_FailedDropped(tbl) ==
    [pending |-> CountByState(tbl, "pending"),
     processing |-> CountByState(tbl, "processing"),
     completed |-> CountByState(tbl, "completed"),
     failed |-> 0,
     dead |-> CountByState(tbl, "dead")]

\* status(): the map of the five counts, filled from the GROUP BY
statusMap(tbl) ==
    [pending |-> CountByState(tbl, "pending"),
     processing |-> CountByState(tbl, "processing"),
     completed |-> CountByState(tbl, "completed"),
     failed |-> CountByState(tbl, "failed"),
     dead |-> CountByState(tbl, "dead")]

\* status(): { ...map, active_workers, oldest_pending }
statusAnswer(map, activeWorkersCount, oldestPending) ==
    [pending |-> map.pending,
     processing |-> map.processing,
     completed |-> map.completed,
     failed |-> map.failed,
     dead |-> map.dead,
     active_workers |-> activeWorkersCount,
     oldest_pending |-> oldestPending]

\* what status() returns when its three SELECTs all see the current state
status ==
    statusAnswer(statusMap(jobs), ActiveWorkers(workersTbl, now),
                 OldestPending(jobs))

\* status(), first statement: the GROUP BY on jobs
StatusCounts ==
    /\ statusCall = NoCall
    /\ statusCall' = [step |-> "workers", map |-> statusMap(jobs)]
    /\ polled' = IF polled = NoPoll
                 THEN [stage |-> "begun"]
                 ELSE polled
    /\ ret' = NoRet
    /\ UNCHANGED <<jobs, dlq, config, workersTbl, now, ticks, retryCall>>
    /\ UNCHANGED workerVars
    /\ UNCHANGED histVars
    /\ UNCHANGED ledger

\* status(), second statement: now = new Date(), the SELECT on workers
StatusWorkers ==
    /\ statusCall.step = "workers"
    /\ statusCall' = [step |-> "oldest", map |-> statusCall.map,
                      activeWorkersCount |-> ActiveWorkers(workersTbl, now)]
    /\ polled' = IF polled.stage = "begun"
                 THEN [stage |-> "read", at |-> now]
                 ELSE polled
    /\ ret' = NoRet
    /\ UNCHANGED <<jobs, dlq, config, workersTbl, now, ticks, retryCall>>
    /\ UNCHANGED workerVars
    /\ UNCHANGED histVars
    /\ UNCHANGED ledger

\* status(), third statement: the SELECT of the oldest pending row, and the
\* answer
StatusOldest ==
    /\ statusCall.step = "oldest"
    /\ ret' = Returned("status", NULL_S,
                       statusAnswer(statusCall.map,
                                    statusCall.activeWorkersCount,
                                    OldestPending(jobs)))
    /\ polled' = IF polled.stage = "read"
                 THEN [stage |-> "answered", at |-> polled.at,
                       value |-> ret'.value]
                 ELSE polled
    /\ statusCall' = NoCall
    /\ UNCHANGED <<jobs, dlq, config, workersTbl, now, ticks, retryCall>>
    /\ UNCHANGED workerVars
    /\ UNCHANGED histVars
    /\ UNCHANGED ledger

\* an operator's call of status(): its three statements, between which other
\* processes may write
Status ==
    \/ StatusCounts
    \/ StatusWorkers
    \/ StatusOldest

\* listByState(state): the rows of the answer; 'dead' lists the DLQ
listByState(state) ==
    IF state = "dead"
    THEN {dlq[d] : d \in DOMAIN dlq}
    ELSE {jobs[id] : id \in {i \in DOMAIN jobs : jobs[i].state = state}}

\* (variant: INSERT OR IGNORE, the first value of a key stays)
set_KeepFirst(key, value) ==
    /\ config' = config @@ (key :> value)
    /\ ret' = NoRet
    /\ UNCHANGED ledger
    /\ UNCHANGED callVars
    /\ UNCHANGED <<jobs, dlq, workersTbl, now, ticks>>
    /\ UNCHANGED workerVars
    /\ UNCHANGED histVars

\* config set(key, value): INSERT OR REPLACE
set(key, value) ==
    /\ config' = (key :> value) @@ config
    /\ ret' = NoRet
    /\ UNCHANGED ledger
    /\ UNCHANGED callVars
    /\ UNCHANGED <<jobs, dlq, workersTbl, now, ticks>>
    /\ UNCHANGED workerVars
    /\ UNCHANGED histVars

ConfigSet == \E value \in BaseValues : set("backoff_base", value)

\* an operator's config set in the config scenario
ConfigSetAny == \E key \in ConfigKeys, value \in ConfigValues : set(key, value)

\* config get <key>
ConfigGet ==
    /\ \E key \in ConfigKeys : ret' = Returned("get", key, get(key))
    /\ UNCHANGED <<jobs, dlq, config, workersTbl, now, ticks>>
    /\ UNCHANGED workerVars
    /\ UNCHANGED histVars
    /\ UNCHANGED ledger
    /\ UNCHANGED callVars

\* a caller's getInt(key)
ConfigGetInt ==
    /\ \E key \in ConfigKeys : ret' = Returned("getInt", key, getInt(key))
    /\ UNCHANGED <<jobs, dlq, config, workersTbl, now, ticks>>
    /\ UNCHANGED workerVars
    /\ UNCHANGED histVars
    /\ UNCHANGED ledger
    /\ UNCHANGED callVars

\* an operator's config set in the tuning scenario
ConfigTune == \E kv \in TuneSettings : set(kv[1], kv[2])

\* ------------------------------------------------------------ worker.js
\* (variant: the replaced row's started_at is not carried over)
heartbeat_Restart(w) ==
    (w :> [id |-> w, started_at |-> now, heartbeat_at |-> now]) @@ workersTbl

\* heartbeat(db): INSERT OR REPLACE keeping the started_at of an earlier row
heartbeat(w) ==
    (w :> [id |-> w,
           started_at |-> IF w \in DOMAIN workersTbl
                          THEN workersTbl[w].started_at ELSE now,
           heartbeat_at |-> now]) @@ workersTbl

\* (variant: rows in processing whose lease has run out are taken too)
Eligible_Reclaim(tbl, t) ==
    {id \in DOMAIN tbl :
        /\ tbl[id].state \in {"pending", "failed", "processing"}
        /\ (tbl[id].run_at = NULL_S \/ TextLe(tbl[id].run_at, toISOString(t)))
        /\ (tbl[id].lock_until = NULL_T \/ tbl[id].lock_until <= t)}

\* (variant: completed rows are taken as well)
Eligible_Done(tbl, t) ==
    {id \in DOMAIN tbl :
        /\ tbl[id].state \in {"pending", "failed", "completed"}
        /\ (tbl[id].run_at = NULL_S \/ TextLe(tbl[id].run_at, toISOString(t)))
        /\ (tbl[id].lock_until = NULL_T \/ tbl[id].lock_until <= t)}

\* the subquery of the claim statement
Eligible(tbl, t) ==
    {id \in DOMAIN tbl :
        /\ tbl[id].state \in {"pending", "failed"}
        /\ (tbl[id].run_at = NULL_S \/ TextLe(tbl[id].run_at, toISOString(t)))
        /\ (tbl[id].lock_until = NULL_T \/ tbl[id].lock_until <= t)}

\* (variants: the rows are ordered by age alone, by priority alone)
FirstInOrder_Fifo(tbl, ids) ==
    {id \in ids : \A o \in ids : tbl[id].created_at <= tbl[o].created_at}
FirstInOrder_PriorityOnly(tbl, ids) ==
    {id \in ids : \A o \in ids : tbl[id].priority >= tbl[o].priority}

\* ORDER BY priority DESC, created_at ASC LIMIT 1: the rows that may come first
FirstInOrder(tbl, ids) ==
    {id \in ids : \A o \in ids :
        \/ tbl[id].priority > tbl[o].priority
        \/ /\ tbl[id].priority = tbl[o].priority
           /\ tbl[id].created_at <= tbl[o].created_at}

\* (variant: the SELECT does not ask whose lock it is)
Reread_AnyWorker(tbl, w) ==
    LET mine == {id \in DOMAIN tbl : tbl[id].state = "processing"}
    IN  {id \in mine : \A o \in mine : tbl[id].updated_at >= tbl[o].updated_at}

\* the SELECT that re-reads the claimed row
Reread(tbl, w) ==
    LET mine == {id \in DOMAIN tbl :
                    tbl[id].locked_by = w /\ tbl[id].state = "processing"}
    IN  {id \in mine : \A o \in mine : tbl[id].updated_at >= tbl[o].updated_at}

\* runWorkerLoop up to the loop: the first heartbeat, the signal handlers
WorkerStart(w) ==
    /\ pc[w] = "off"
    /\ workersTbl' = heartbeat(w)
    /\ pc' = [pc EXCEPT ![w] = "loop"]
    /\ UNCHANGED <<jobs, dlq, config, now, ticks, STOPPING, currentJob,
                   base, refreshAt>>
    /\ ret' = NoRet
    /\ UNCHANGED ledger
    /\ UNCHANGED <<statusCall, retryCall>>
    /\ UNCHANGED histVars
    /\ polled' = Noted

\* (variant: the loop does not look at the flag)
LoopExits_Never(w) == FALSE

\* while (!STOPPING): the loop is left once the flag is set
LoopExits(w) == STOPPING[w]

\* The top of a loop iteration: while (!STOPPING), await heartbeat(db).  The
\* statements of one iteration are separate statements on the store, and
\* other processes may run theirs between any two of them.
LoopHeartbeat(w) ==
    /\ pc[w] = "loop"
    /\ IF LoopExits(w)
       THEN /\ pc' = [pc EXCEPT ![w] = "returned"]
            /\ UNCHANGED workersTbl
       ELSE /\ workersTbl' = heartbeat(w)
            /\ pc' = [pc EXCEPT ![w] = "claim"]
    /\ ret' = NoRet
    /\ UNCHANGED ledger
    /\ UNCHANGED <<statusCall, retryCall>>
    /\ UNCHANGED <<jobs, dlq, config, now, ticks, STOPPING, currentJob, base,
                   refreshAt>>
    /\ UNCHANGED histVars
    /\ polled' = Noted

\* claimJob: now = nowISO(), the UPDATE.  No row changed: claimJob returns
\* null, the loop sleeps and starts its next iteration.
ClaimUpdate(w) ==
    /\ pc[w] = "claim"
    /\ LET lockUntil == addSeconds(now, LOCK_SECONDS)
           first == FirstInOrder(jobs, Eligible(jobs, now))
       IN  IF first = {}
           THEN /\ pc' = [pc EXCEPT ![w] = "loop"]
                /\ UNCHANGED <<jobs, claims, taken>>
           ELSE \E id \in first :
                /\ jobs' = [jobs EXCEPT ![id] =
                                [@ EXCEPT !.state = "processing",
                                          !.locked_by = w,
                                          !.lock_until = lockUntil,
                                          !.attempts = @ + 1,
                                          !.updated_at = now]]
                /\ claims' = [claims EXCEPT ![id] = @ + 1]
                /\ taken' = [taken EXCEPT ![w] = @ + 1]
                /\ pc' = [pc EXCEPT ![w] = "reread"]
    /\ ret' = NoRet
    /\ UNCHANGED ledger
    /\ UNCHANGED <<statusCall, retryCall>>
    /\ UNCHANGED <<dlq, config, workersTbl, now, ticks, STOPPING, currentJob,
                   base, refreshAt, execs>>
    /\ polled' = Noted

\* The SELECT of claimJob and the start of processJob: currentJob = job, the
\* interval is set.  No row found: claimJob returns null.
ClaimReread(w) ==
    /\ pc[w] = "reread"
    /\ IF Reread(jobs, w) = {}
       THEN /\ pc' = [pc EXCEPT ![w] = "loop"]
            /\ UNCHANGED <<currentJob, refreshAt>>
       ELSE \E id \in Reread(jobs, w) :
            /\ currentJob' = [currentJob EXCEPT ![w] = jobs[id]]
            /\ refreshAt' = [refreshAt EXCEPT ![w] = now + REFRESH_SECONDS]
            /\ pc' = [pc EXCEPT ![w] = "config"]
    /\ ret' = NoRet
    /\ UNCHANGED ledger
    /\ UNCHANGED callVars
    /\ UNCHANGED <<jobs, dlq, config, workersTbl, now, ticks, STOPPING, base>>
    /\ UNCHANGED histVars

\* processJob: base = (await getInt('backoff_base')) || 2, the SELECT on
\* config; the command is started
ReadBase(w) ==
    /\ pc[w] = "config"
    /\ base' = [base EXCEPT ![w] = OrElse(getInt("backoff_base"), DEFAULT_BASE)]
    /\ pc' = [pc EXCEPT ![w] = "exec"]
    /\ ret' = NoRet
    /\ UNCHANGED ledger
    /\ UNCHANGED callVars
    /\ UNCHANGED <<jobs, dlq, config, workersTbl, now, ticks, STOPPING,
                   currentJob, refreshAt>>
    /\ UNCHANGED histVars

\* (variant: the new expiry is not bound to the statement)
refreshLock_Null(tbl, w, job) ==
    [id \in DOMAIN tbl |->
        IF id = job.id /\ tbl[id].locked_by = w
        THEN [tbl[id] EXCEPT !.lock_until = NULL_T]
        ELSE tbl[id]]

\* (variant: the refresh also stamps the row)
refreshLock_Touch(tbl, w, job) ==
    LET extend == addSeconds(now, LOCK_SECONDS)
    IN  [id \in DOMAIN tbl |->
            IF id = job.id /\ tbl[id].locked_by = w
            THEN [tbl[id] EXCEPT !.lock_until = extend, !.updated_at = now]
            ELSE tbl[id]]

\* refreshLock, fired by the interval while the command runs
refreshLock(tbl, w, job) ==
    LET extend == addSeconds(now, LOCK_SECONDS)
    IN  [id \in DOMAIN tbl |->
            IF id = job.id /\ tbl[id].locked_by = w
            THEN [tbl[id] EXCEPT !.lock_until = extend]
            ELSE tbl[id]]

RefreshLock(w) ==
    /\ pc[w] = "exec"
    /\ currentJob[w] # NoJob
    /\ now >= refreshAt[w]
    /\ jobs' = refreshLock(jobs, w, currentJob[w])
    /\ refreshAt' = [refreshAt EXCEPT ![w] = now + REFRESH_SECONDS]
    /\ ret' = NoRet
    /\ UNCHANGED ledger
    /\ UNCHANGED <<statusCall, retryCall>>
    /\ UNCHANGED <<dlq, config, workersTbl, now, ticks, pc, STOPPING,
                   currentJob, base>>
    /\ UNCHANGED histVars
    /\ polled' = Noted

LastError(code) == "exit=" \o ToString(code) \o ": Command failed"

\* (variant: the lease is left on the completed row)
MarkCompleted_KeepLock(tbl, job) ==
    [id \in DOMAIN tbl |->
        IF id = job.id
        THEN [tbl[id] EXCEPT !.state = "completed", !.updated_at = now,
                             !.last_error = NULL_S]
        ELSE tbl[id]]

\* (variant: the error of an earlier attempt is left on the completed row)
MarkCompleted_KeepError(tbl, job) ==
    [id \in DOMAIN tbl |->
        IF id = job.id
        THEN [tbl[id] EXCEPT !.state = "completed", !.updated_at = now,
                             !.locked_by = NULL_S, !.lock_until = NULL_T]
        ELSE tbl[id]]

\* the three UPDATEs of processJob
MarkCompleted(tbl, job) ==
    [id \in DOMAIN tbl |->
        IF id = job.id
        THEN [tbl[id] EXCEPT !.state = "completed", !.updated_at = now,
                             !.locked_by = NULL_S, !.lock_until = NULL_T,
                             !.last_error = NULL_S]
        ELSE tbl[id]]

\* (variant: the attempt is counted a second time)
MarkFailed_CountTwice(tbl, job, attemptsNow, runAt, code) ==
    [id \in DOMAIN tbl |->
        IF id = job.id
        THEN [tbl[id] EXCEPT !.state = "failed", !.attempts = attemptsNow + 1,
                             !.run_at = toISOString(runAt),
                             !.updated_at = now,
                             !.last_error = LastError(code),
                             !.locked_by = NULL_S, !.lock_until = runAt]
        ELSE tbl[id]]

MarkFailed(tbl, job, attemptsNow, runAt, code) ==
    [id \in DOMAIN tbl |->
        IF id = job.id
        THEN [tbl[id] EXCEPT !.state = "failed", !.attempts = attemptsNow,
                             !.run_at = toISOString(runAt),
                             !.updated_at = now,
                             !.last_error = LastError(code),
                             !.locked_by = NULL_S, !.lock_until = runAt]
        ELSE tbl[id]]

MarkDead(tbl, job, code) ==
    [id \in DOMAIN tbl |->
        IF id = job.id
        THEN [tbl[id] EXCEPT !.state = "dead", !.updated_at = now,
                             !.locked_by = NULL_S, !.lock_until = NULL_T,
                             !.last_error = LastError(code)]
        ELSE tbl[id]]

\* (variant: the entry is stored under the job's own id)
DlqRow_RawId(job) ==
    [id |-> job.id, job_id |-> job.id,
     payload |-> JSONstringify(job), dead_at |-> now]

\* the row processJob inserts into dlq
DlqRow(job) ==
    [id |-> DlqId(job.id), job_id |-> job.id,
     payload |-> JSONstringify(job), dead_at |-> now]

\* (variants: the comparison is off by one, in either form)
Retryable_Le(attemptsNow, maxRetries) == attemptsNow <= maxRetries
Retryable_Loose(attemptsNow, maxRetries) == attemptsNow < maxRetries + 2

\* whether a failed attempt is retried: if (attemptsNow < maxRetries)
Retryable(attemptsNow, maxRetries) == attemptsNow < maxRetries

\* (variant: the interval is left running)
clearInterval_Skip(refresher) == refresher

\* finally { clearInterval(refresher) }: the interval has no next firing
clearInterval(refresher) == NULL_T

\* (variant: the mode is not looked at after a job)
AfterJob_Ignore(w, stopping) == stopping

\* if (SINGLE_RUN) { STOPPING = true; } after a processJob that returned
AfterJob(w, stopping) == stopping \/ SINGLE_RUN[w]

\* processJob from the end of the command to the finally block, and the rest
\* of the loop iteration
Resolve(w, ok) ==
    /\ pc[w] = "exec"
    /\ LET job == currentJob[w]
           maxRetries == OrDefault(job.max_retries, DEFAULT_MAX_RETRIES)
           attemptsNow == IF job.attempts = 0 THEN 1 ELSE job.attempts
           runAt == addSeconds(now, backoff(base[w], attemptsNow))
           thrown == ~ok /\ ~Retryable(attemptsNow, maxRetries)
                         /\ DlqRow(job).id \in DOMAIN dlq
       IN  /\ execs' = [execs EXCEPT ![job.id] = Append(@, ok)]
           /\ IF ok
              THEN /\ jobs' = MarkCompleted(jobs, job)
                   /\ UNCHANGED dlq
              ELSE IF Retryable(attemptsNow, maxRetries)
              THEN /\ jobs' = MarkFailed(jobs, job, attemptsNow, runAt, EXIT_CODE)
                   /\ UNCHANGED dlq
              ELSE IF thrown
              THEN UNCHANGED <<jobs, dlq>>
              ELSE /\ dlq' = InsertDlq(dlq, DlqRow(job))
                   /\ jobs' = MarkDead(jobs, job, EXIT_CODE)
           /\ STOPPING' = [STOPPING EXCEPT ![w] =
                                IF thrown THEN @ ELSE AfterJob(w, @)]
    /\ currentJob' = [currentJob EXCEPT ![w] = NoJob]
    /\ refreshAt' = [refreshAt EXCEPT ![w] = clearInterval(@)]
    /\ pc' = [pc EXCEPT ![w] = "loop"]
    /\ base' = [base EXCEPT ![w] = 0]
    /\ ret' = NoRet
    /\ UNCHANGED ledger
    /\ UNCHANGED <<statusCall, retryCall>>
    /\ UNCHANGED <<config, workersTbl, now, ticks, claims, taken>>
    /\ polled' = Noted

\* SIGINT / SIGTERM: the cleanup handler sets the flag
Stop(w) ==
    /\ pc[w] \in {"loop", "exec"}
    /\ ~STOPPING[w]
    /\ STOPPING' = [STOPPING EXCEPT ![w] = TRUE]
    /\ ret' = NoRet
    /\ UNCHANGED ledger
    /\ UNCHANGED callVars
    /\ UNCHANGED <<jobs, dlq, config, workersTbl, now, ticks, pc,
                   currentJob, base, refreshAt>>
    /\ UNCHANGED histVars

\* the worker process dies (kill -9, power loss): its memory is gone, the
\* rows it wrote stay
Crash(w) ==
    /\ pc[w] \in {"loop", "claim", "reread", "config", "exec"}
    /\ pc' = [pc EXCEPT ![w] = "crashed"]
    /\ currentJob' = [currentJob EXCEPT ![w] = NoJob]
    /\ refreshAt' = [refreshAt EXCEPT ![w] = NULL_T]
    /\ base' = [base EXCEPT ![w] = 0]
    /\ STOPPING' = [STOPPING EXCEPT ![w] = FALSE]
    /\ ret' = NoRet
    /\ UNCHANGED ledger
    /\ UNCHANGED callVars
    /\ UNCHANGED <<jobs, dlq, config, workersTbl, now, ticks>>
    /\ UNCHANGED histVars

\* ---------------------------------------------------------------- clock
\* The first instant in lo .. hi at which the claim statement finds the text
\* runAt due, run_at <= nowISO() on TEXT, and hi when there is none below hi.
\* toISOString rises with the clock, so the instants at which the text is
\* due are the ones from the first on, and the search may halve the range.
RECURSIVE FirstDue(_, _, _)
FirstDue(runAt, lo, hi) ==
    IF lo >= hi THEN hi
    ELSE LET mid == (lo + hi) \div 2
         IN  IF TextLe(runAt, toISOString(mid))
             THEN FirstDue(runAt, lo, mid)
             ELSE FirstDue(runAt, mid + 1, hi)

\* the first instant of the first hour of the clock, the hour toISOString
\* writes, at which runAt is due; 3600 when it is not due within the hour
DueAt(runAt) == FirstDue(runAt, 0, 3600)

\* the instants at which something stored becomes due: a run_at when the
\* claim statement first finds it due, a lock_until and a refresher interval
\* when the clock reaches them
Deadlines ==
    {d \in {DueAt(jobs[id].run_at) :
                id \in {i \in DOMAIN jobs : jobs[i].run_at # NULL_S}} :
        d < 3600} \cup
    {jobs[id].lock_until : id \in DOMAIN jobs} \cup
    {refreshAt[w] : w \in Workers}

Tick ==
    /\ ticks < MaxTicks
    /\ \E t \in {now + 1} \cup {d \in Deadlines : d > now} : now' = t
    /\ ticks' = ticks + 1
    /\ ret' = NoRet
    /\ UNCHANGED ledger
    /\ UNCHANGED callVars
    /\ UNCHANGED <<jobs, dlq, config, workersTbl>>
    /\ UNCHANGED workerVars
    /\ UNCHANGED histVars

\* The clock of the watch scenario.  No statement of the program holds the
\* clock: between any two statements of a process, and while a command
\* runs, any time may pass (the timeout of a command sends a signal that the
\* command may ignore).  Besides the deadlines, the clock stops at the
\* instants at which a heartbeat leaves the window of status() and at which
\* a command reaches its timeout.
TimedTick ==
    /\ ticks < MaxTicks
    /\ \E t \in {now + 1} \cup Deadlines \cup
                {workersTbl[w].heartbeat_at + ACTIVE_SECONDS + 1 :
                    w \in DOMAIN workersTbl} \cup
                {currentJob[w].updated_at + COMMAND_TIMEOUT + 1 :
                    w \in {x \in Workers : pc[x] = "exec"}} :
          /\ t > now
          /\ now' = t
    /\ ticks' = ticks + 1
    /\ ret' = NoRet
    /\ UNCHANGED ledger
    /\ UNCHANGED callVars
    /\ UNCHANGED <<jobs, dlq, config, workersTbl>>
    /\ UNCHANGED workerVars
    /\ UNCHANGED histVars

Next ==
    \/ Enqueue
    \/ DlqRetry
    \/ ConfigSet
    \/ Tick
    \/ \E w \in Workers : WorkerStart(w)
    \/ \E w \in Workers : LoopHeartbeat(w)
    \/ \E w \in Workers : ClaimUpdate(w)
    \/ \E w \in Workers : ClaimReread(w)
    \/ \E w \in Workers : ReadBase(w)
    \/ \E w \in Workers : RefreshLock(w)
    \/ \E w \in Workers, ok \in BOOLEAN : Resolve(w, ok)
    \/ \E w \in Signalled : Stop(w)
    \/ \E w \in Crashable : Crash(w)

Spec == Init /\ [][Next]_vars

\* What the scheduling of a worker process guarantees while the process
\* lives: it takes its next step.  The sleep of an idle loop ends and the
\* statements of the iteration run; every command being run under a timeout,
\* its execution ends and is resolved.  (At most one of these steps is
\* possible at a time.)
WorkerFairness(w) ==
    WF_vars(\/ LoopHeartbeat(w)
            \/ ClaimUpdate(w)
            \/ ClaimReread(w)
            \/ ReadBase(w)
            \/ \E ok \in BOOLEAN : Resolve(w, ok))

\* Producers, the workers, the signals sent to them and their deaths, with
\* the workers scheduled fairly and the clock advancing as far as its bound
\* lets it.  The backoff base stays at its default.
LiveNext ==
    \/ Enqueue
    \/ Tick
    \/ \E w \in Workers : WorkerStart(w)
    \/ \E w \in Workers : LoopHeartbeat(w)
    \/ \E w \in Workers : ClaimUpdate(w)
    \/ \E w \in Workers : ClaimReread(w)
    \/ \E w \in Workers : ReadBase(w)
    \/ \E w \in Workers : RefreshLock(w)
    \/ \E w \in Workers, ok \in BOOLEAN : Resolve(w, ok)
    \/ \E w \in Signalled : Stop(w)
    \/ \E w \in Crashable : Crash(w)

LiveSpec ==
    /\ Init
    /\ [][LiveNext]_vars
    /\ \A w \in Workers : WorkerFairness(w)
    /\ WF_vars(Tick)

\* The priority scenario: producers submit lo, hi and eq, one worker runs.
OrderNext ==
    \/ EnqueueOrder
    \/ Tick
    \/ \E w \in OrderWorkers : WorkerStart(w)
    \/ \E w \in OrderWorkers : LoopHeartbeat(w)
    \/ \E w \in OrderWorkers : ClaimUpdate(w)
    \/ \E w \in OrderWorkers : ClaimReread(w)
    \/ \E w \in OrderWorkers : ReadBase(w)
    \/ \E w \in OrderWorkers : RefreshLock(w)
    \/ \E w \in OrderWorkers, ok \in BOOLEAN : Resolve(w, ok)

OrderSpec == Init /\ [][OrderNext]_vars

\* The queue API seen by its callers: producers (some of whose jobs lack a
\* command) and dlq retries beside the workers, which run, resolve and may
\* die.  The backoff base stays at its default and no signal is sent.
ApiNext ==
    \/ Enqueue
    \/ EnqueueNoCommand
    \/ DlqRetry
    \/ Tick
    \/ \E w \in Workers : WorkerStart(w)
    \/ \E w \in Workers : LoopHeartbeat(w)
    \/ \E w \in Workers : ClaimUpdate(w)
    \/ \E w \in Workers : ClaimReread(w)
    \/ \E w \in Workers : ReadBase(w)
    \/ \E w \in Workers : RefreshLock(w)
    \/ \E w \in Workers, ok \in BOOLEAN : Resolve(w, ok)
    \/ \E w \in Crashable : Crash(w)

ApiSpec == Init /\ [][ApiNext]_vars

\* The retry scenario: two operators call dlq retry, and their calls may
\* overlap, while producers submit jobs and one worker runs them.
RetryNext ==
    \/ Enqueue
    \/ DlqRetryRace
    \/ Tick
    \/ \E w \in OrderWorkers : WorkerStart(w)
    \/ \E w \in OrderWorkers : LoopHeartbeat(w)
    \/ \E w \in OrderWorkers : ClaimUpdate(w)
    \/ \E w \in OrderWorkers : ClaimReread(w)
    \/ \E w \in OrderWorkers : ReadBase(w)
    \/ \E w \in OrderWorkers : RefreshLock(w)
    \/ \E w \in OrderWorkers, ok \in BOOLEAN : Resolve(w, ok)

RetrySpec == Init /\ [][RetryNext]_vars

\* The config scenario: the config API alone, every key set to every value
\* and read back, as a string and as an integer.
ConfigNext ==
    \/ ConfigSetAny
    \/ ConfigGet
    \/ ConfigGetInt

ConfigSpec == Init /\ [][ConfigNext]_vars

\* The CLI scenario: jobs are submitted with queuectl enqueue and one worker
\* runs them.
CliNext ==
    \/ CliEnqueue
    \/ Tick
    \/ \E w \in OrderWorkers : WorkerStart(w)
    \/ \E w \in OrderWorkers : LoopHeartbeat(w)
    \/ \E w \in OrderWorkers : ClaimUpdate(w)
    \/ \E w \in OrderWorkers : ClaimReread(w)
    \/ \E w \in OrderWorkers : ReadBase(w)
    \/ \E w \in OrderWorkers : RefreshLock(w)
    \/ \E w \in OrderWorkers, ok \in BOOLEAN : Resolve(w, ok)

CliSpec == Init /\ [][CliNext]_vars

\* The watch scenario: an operator calls status() while producers submit
\* jobs and one worker runs them, under the timed clock.
WatchNext ==
    \/ Enqueue
    \/ Status
    \/ DlqRetry
    \/ TimedTick
    \/ \E w \in OrderWorkers : WorkerStart(w)
    \/ \E w \in OrderWorkers : LoopHeartbeat(w)
    \/ \E w \in OrderWorkers : ClaimUpdate(w)
    \/ \E w \in OrderWorkers : ClaimReread(w)
    \/ \E w \in OrderWorkers : ReadBase(w)
    \/ \E w \in OrderWorkers : RefreshLock(w)
    \/ \E w \in OrderWorkers, ok \in BOOLEAN : Resolve(w, ok)

WatchSpec == Init /\ [][WatchNext]_vars

\* The tuning scenario: the operator sets the backoff base and the retry
\* budget in config, before or while a producer submits the failing job and
\* the workers run it through its retries.
TuneNext ==
    \/ EnqueueTune
    \/ ConfigTune
    \/ Tick
    \/ \E w \in Workers : WorkerStart(w)
    \/ \E w \in Workers : LoopHeartbeat(w)
    \/ \E w \in Workers : ClaimUpdate(w)
    \/ \E w \in Workers : ClaimReread(w)
    \/ \E w \in Workers : ReadBase(w)
    \/ \E w \in Workers : RefreshLock(w)
    \/ \E w \in Workers, ok \in BOOLEAN : Resolve(w, ok)

TuneSpec == Init /\ [][TuneNext]_vars

\* ======================================================================
\* Properties
\* ======================================================================

\* the instant the run_at of a row denotes (NULL_T: the row has none)
RunAtInstant(row) ==
    IF row.run_at = NULL_S THEN NULL_T ELSE DateParse(row.run_at)

\* C1: a job is never held by two workers at once.  The job a worker is
\* processing is in state processing with locked_by that worker, and no other
\* worker is processing the same job.
C1_NoDoubleClaim ==
    \A w \in Workers :
        currentJob[w] # NoJob =>
            /\ currentJob[w].id \in DOMAIN jobs
            /\ jobs[currentJob[w].id].state = "processing"
            /\ jobs[currentJob[w].id].locked_by = w
            /\ \A o \in Workers \ {w} : currentJob[o].id # currentJob[w].id

\* two workers are processing (different) jobs at the same time
C1_Witness ==
    /\ currentJob["w1"] # NoJob
    /\ currentJob["w2"] # NoJob

\* a row left in processing by a worker that died, its lease run out
Abandoned(j) ==
    /\ jobs[j].state = "processing"
    /\ jobs[j].lock_until <= now
    /\ jobs[j].locked_by \in Workers
    /\ pc[jobs[j].locked_by] = "crashed"

\* C2: crash recovery.  When a job was left in processing by a worker that
\* crashed and its lock_until has passed, a claim by another running worker
\* (no other job being eligible) takes that job and increments its attempts.
C2_CrashRecovery ==
    [][\A b \in Workers : \A j \in DOMAIN jobs :
          ( /\ Abandoned(j)
            /\ jobs[j].locked_by # b
            /\ Eligible(jobs, now) = {}
            /\ ClaimUpdate(b) )
          => /\ jobs'[j].locked_by = b
             /\ jobs'[j].attempts = jobs[j].attempts + 1]_vars

AllFailed(j) == \A i \in 1..Len(execs[j]) : ~execs[j][i]
DlqEntriesOf(j) == {d \in DOMAIN dlq : dlq[d].job_id = j}

\* C3: retry budget.  A job with max_retries = m >= 1 whose command has failed
\* every time has been executed at most m times; it is failed, with a retry
\* scheduled, after fewer than m failures, and dead, with exactly one DLQ entry
\* for its id, exactly when it has failed m times.
C3_RetryBudget ==
    \A j \in DOMAIN jobs :
        LET m == jobs[j].max_retries
            n == Len(execs[j])
        IN  (m >= 1 /\ AllFailed(j)) =>
                /\ n <= m
                /\ jobs[j].state = "failed" =>
                       (n >= 1 /\ n < m /\ RunAtInstant(jobs[j]) # NULL_T)
                /\ jobs[j].state = "dead" <=> n = m
                /\ Cardinality(DlqEntriesOf(j)) = (IF n = m THEN 1 ELSE 0)

\* a job with max_retries = 2 has failed twice and is dead
C3_Witness ==
    \E j \in DOMAIN jobs :
        /\ jobs[j].max_retries = 2
        /\ execs[j] = <<FALSE, FALSE>>
        /\ jobs[j].state = "dead"

\* C4: the move to the DLQ is atomic.  A job row is dead if and only if the
\* DLQ holds the entry 'dlq_<id>' with that job_id, whose payload records the
\* job's id, command, max_retries and priority; every DLQ entry is such an entry.
C4_DlqAtomic ==
    /\ \A j \in DOMAIN jobs :
          jobs[j].state = "dead" <=>
              /\ DlqId(j) \in DOMAIN dlq
              /\ dlq[DlqId(j)].job_id = j
              /\ JSONparse(dlq[DlqId(j)].payload) =
                     [id |-> j, command |-> jobs[j].command,
                      max_retries |-> jobs[j].max_retries,
                      priority |-> jobs[j].priority]
    /\ \A d \in DOMAIN dlq :
          /\ dlq[d].job_id \in DOMAIN jobs
          /\ d = DlqId(dlq[d].job_id)
          /\ dlq[d].id = d

\* a job has been moved to the DLQ
C4_Witness ==
    \E j \in DOMAIN jobs :
        /\ jobs[j].state = "dead"
        /\ DlqId(j) \in DOMAIN dlq
        /\ dlq[DlqId(j)].dead_at = jobs[j].updated_at

\* C5: DLQ retry round trip.  dlq_retry('dlq_<id>') on the entry of a job a
\* worker moved to the DLQ succeeds and returns the job id; afterwards the
\* entry is gone and the jobs table has the row of that id, pending, with
\* attempts = 0 and the command, max_retries and priority the job died with.
C5_DlqRetryRoundTrip ==
    [][\A j \in DOMAIN jobs :
          ( /\ jobs[j].state = "dead"
            /\ DlqId(j) \in DOMAIN dlq
            /\ ret'.op = "dlqRetry"
            /\ ret'.arg = DlqId(j) )
          => /\ ret'.ok
             /\ ret'.value = j
             /\ DlqId(j) \notin DOMAIN dlq'
             /\ j \in DOMAIN jobs'
             /\ jobs'[j].state = "pending"
             /\ jobs'[j].attempts = 0
             /\ jobs'[j].command = jobs[j].command
             /\ jobs'[j].max_retries = jobs[j].max_retries
             /\ jobs'[j].priority = jobs[j].priority]_vars

\* C6: dlq_retry with an id that is not the id of a DLQ entry throws the
\* not-found error and leaves the jobs table and the DLQ as they were.
C6_DlqRetryNotFound ==
    [][(ret'.op = "dlqRetry" /\ ret'.arg \notin DOMAIN dlq)
          => /\ ~ret'.ok
             /\ ret'.error = "DLQ item not found"
             /\ jobs' = jobs
             /\ dlq' = dlq]_vars

\* dlq_retry has just been refused for an unknown id, with jobs in the table
C6_Witness ==
    /\ ret.op = "dlqRetry"
    /\ ret.error = "DLQ item not found"
    /\ ret.arg \notin DOMAIN dlq
    /\ DOMAIN jobs # {}

\* C7: dlq_retry is all-or-nothing.  A call that returns has deleted the
\* entry and inserted the pending row; a call that throws has changed neither
\* table, so after a failed insert the entry is still there.
C7_DlqRetryAllOrNothing ==
    [][ret'.op = "dlqRetry" =>
          \/ /\ ret'.ok
             /\ ret'.arg \in DOMAIN dlq
             /\ ret'.arg \notin DOMAIN dlq'
             /\ ret'.value \notin DOMAIN jobs
             /\ ret'.value \in DOMAIN jobs'
             /\ jobs'[ret'.value].state = "pending"
          \/ /\ ~ret'.ok
             /\ jobs' = jobs
             /\ dlq' = dlq]_vars

\* the insert of dlq_retry has just failed on an id that is in the jobs
\* table, and the entry is still in the DLQ
C7_Witness ==
    /\ ret.op = "dlqRetry"
    /\ ret.error = UNIQUE_JOBS
    /\ ret.arg \in DOMAIN dlq
    /\ dlq[ret.arg].job_id \in DOMAIN jobs

\* C8: attempts <= max_retries + 1 for every job (max_retries is never
\* negative here).
C8_AttemptsBound ==
    \A j \in DOMAIN jobs :
        jobs[j].max_retries >= 0 => jobs[j].attempts <= jobs[j].max_retries + 1

\* the bound is met: a job with max_retries = 0 has been claimed once
C8_Witness ==
    \E j \in DOMAIN jobs :
        /\ jobs[j].attempts = jobs[j].max_retries + 1
        /\ claims[j] = 1

\* C9: a job in processing has locked_by and lock_until both non-null.
C9_ProcessingLocked ==
    \A j \in DOMAIN jobs :
        jobs[j].state = "processing" =>
            (jobs[j].locked_by # NULL_S /\ jobs[j].lock_until # NULL_T)

\* a job in processing whose lease has been extended by a refresh
C9_Witness ==
    \E j \in DOMAIN jobs :
        /\ jobs[j].state = "processing"
        /\ jobs[j].lock_until > addSeconds(jobs[j].updated_at, LOCK_SECONDS)

\* C10 as stated: a job that is pending, failed, completed or dead has
\* locked_by = null and lock_until = null.
C10_Original ==
    \A j \in DOMAIN jobs :
        jobs[j].state \in {"pending", "failed", "completed", "dead"} =>
            (jobs[j].locked_by = NULL_S /\ jobs[j].lock_until = NULL_T)

\* C10, amended: a job that is pending, completed or dead has locked_by =
\* null and lock_until = null; a failed job has locked_by = null and
\* lock_until equal to its (non-null) run_at.
C10_UnlockedWhenNotProcessing ==
    \A j \in DOMAIN jobs :
        /\ jobs[j].state \in {"pending", "completed", "dead"} =>
               (jobs[j].locked_by = NULL_S /\ jobs[j].lock_until = NULL_T)
        /\ jobs[j].state = "failed" =>
               /\ jobs[j].locked_by = NULL_S
               /\ jobs[j].lock_until = RunAtInstant(jobs[j])
               /\ RunAtInstant(jobs[j]) # NULL_T

\* one job is failed and waits for its retry, another has completed
C10_Witness ==
    /\ \E j \in DOMAIN jobs : jobs[j].state = "failed" /\ jobs[j].attempts >= 1
    /\ \E j \in DOMAIN jobs : jobs[j].state = "completed"

\* a pending or failed row whose run_at lies ahead of the clock
NotYetDue(j) ==
    /\ jobs[j].state \in {"pending", "failed"}
    /\ RunAtInstant(jobs[j]) # NULL_T
    /\ RunAtInstant(jobs[j]) > now

\* C11: a job whose run_at is later than the current time is never selected
\* by a claim.  No step changes a pending or failed row whose run_at, read
\* as the ISO-8601 instant it denotes, lies ahead of the clock: it keeps its
\* state, its attempts and its schedule and stays unlocked by any worker,
\* and no worker starts working on it.
C11_NotClaimedBeforeRunAt ==
    [][\A j \in DOMAIN jobs :
          NotYetDue(j) =>
              /\ j \in DOMAIN jobs'
              /\ jobs'[j] = jobs[j]
              /\ \A w \in Workers : currentJob'[w].id # j]_vars

\* the rows a claim made now may take, as the claim states them
EligibleNow(j) ==
    /\ jobs[j].state \in {"pending", "failed"}
    /\ (RunAtInstant(jobs[j]) = NULL_T \/ RunAtInstant(jobs[j]) <= now)
    /\ (jobs[j].lock_until = NULL_T \/ jobs[j].lock_until <= now)

\* C12: every successful claim selects, among the jobs eligible at that
\* moment, a job of the highest priority and, among those, of the earliest
\* created_at: the job a claim takes was eligible, no eligible job had a
\* higher priority, and none of the same priority was created earlier.
C12_ClaimOrder ==
    [][\A j \in DOMAIN jobs :
          claims'[j] = claims[j] + 1 =>
              /\ EligibleNow(j)
              /\ jobs'[j].state = "processing"
              /\ \A o \in DOMAIN jobs :
                    EligibleNow(o) =>
                        /\ jobs[o].priority <= jobs[j].priority
                        /\ jobs[o].priority = jobs[j].priority =>
                               jobs[j].created_at <= jobs[o].created_at]_vars

\* lo was enqueued before hi and before eq; the one worker has claimed hi
\* first and completed it, and has then claimed lo while eq, of the same
\* priority and younger, is still pending
C12_Witness ==
    /\ {"lo", "hi", "eq"} \subseteq DOMAIN jobs
    /\ jobs["lo"].created_at < jobs["hi"].created_at
    /\ jobs["lo"].created_at < jobs["eq"].created_at
    /\ jobs["hi"].state = "completed"
    /\ claims["hi"] = 1
    /\ jobs["lo"].state = "processing"
    /\ claims["lo"] = 1
    /\ jobs["hi"].updated_at <= jobs["lo"].updated_at
    /\ jobs["eq"].state = "pending"
    /\ claims["eq"] = 0

\* the five state counts of a status() answer, added up
StatusTotal(st) ==
    st.pending + st.processing + st.completed + st.failed + st.dead

\* C13 as stated: the status counts of the five states plus the number of
\* DLQ entries equal the number of ids ever enqueued minus the ids removed
\* by a dlq_retry.
C13_Original ==
    StatusTotal(status) + Cardinality(DOMAIN dlq) =
        Cardinality(enqueued) - Cardinality(retried)

\* C13, amended: the status counts of the five states add up to the number
\* of ids ever enqueued, and the number of DLQ entries equals the dead count:
\* a job moved to the DLQ keeps its row, in state dead, and is counted in
\* both.  This holds of the counts taken in any state, hence of the counts a
\* status() call takes with its GROUP BY; the answer the call returns two
\* statements later carries those counts, which by then may lag behind the
\* ids enqueued and the DLQ entries, never exceed them.
C13_Conservation ==
    [][/\ StatusTotal(status') = Cardinality(enqueued')
       /\ Cardinality(DOMAIN dlq') = status'.dead
       /\ (statusCall = NoCall /\ statusCall' # NoCall) =>
              /\ StatusTotal(statusCall'.map) = Cardinality(enqueued)
              /\ statusCall'.map.dead = Cardinality(DOMAIN dlq)
       /\ (statusCall # NoCall /\ statusCall' # NoCall) =>
              statusCall'.map = statusCall.map
       /\ (statusCall # NoCall /\ statusCall' = NoCall) =>
              /\ ret'.op = "status"
              /\ StatusTotal(ret'.value) = StatusTotal(statusCall.map)
              /\ ret'.value.dead = statusCall.map.dead
              /\ StatusTotal(ret'.value) <= Cardinality(enqueued')
              /\ ret'.value.dead <= Cardinality(DOMAIN dlq')]_vars

\* status() has just answered, its counts taken with two jobs enqueued, one
\* of them dead and in the DLQ, the other in another state, so that counts
\* plus DLQ size is 3
C13_Witness ==
    /\ ret.op = "status"
    /\ Cardinality(enqueued) = 2
    /\ ret.value.dead = 1
    /\ Cardinality(DOMAIN dlq) = 1
    /\ ret.value.pending + ret.value.processing + ret.value.completed
           + ret.value.failed = 1

\* A status() call made after the first one returns in this step, and no
\* statement has changed the jobs or the workers table from the first
\* statement of the first call on.
LaterAnswerOnSameStore ==
    /\ polled.stage = "answered"
    /\ statusCall.step = "oldest"
    /\ statusCall' = NoCall

\* C14 as stated: two successive status() calls with no store mutation
\* between them return identical results in every field, even when time
\* passes between the two calls.
C14_Original ==
    [][LaterAnswerOnSameStore => ret'.value = polled.value]_vars

\* C14, amended: two successive status() calls with no store mutation from
\* the first statement of the first to the last statement of the second
\* return the same five counts and the same oldest_pending; active_workers
\* is the same when no time has passed between the calls and is never
\* higher in the later call.
C14_StatusStable ==
    [][LaterAnswerOnSameStore =>
          /\ ret'.value.pending = polled.value.pending
          /\ ret'.value.processing = polled.value.processing
          /\ ret'.value.completed = polled.value.completed
          /\ ret'.value.failed = polled.value.failed
          /\ ret'.value.dead = polled.value.dead
          /\ ret'.value.oldest_pending = polled.value.oldest_pending
          /\ ret'.value.active_workers <= polled.value.active_workers
          /\ now = polled.at =>
                 ret'.value.active_workers = polled.value.active_workers]_vars

\* a second status() call has just answered on the store the first call
\* began on, with a pending job, after the heartbeat of a worker that the
\* first call counted has left the window of 10 seconds
C14_Witness ==
    /\ polled.stage = "answered"
    /\ ret.op = "status"
    /\ now > polled.at
    /\ ret.value.pending >= 1
    /\ ret.value.oldest_pending # NULL_T
    /\ ret.value.pending = polled.value.pending
    /\ polled.value.active_workers = 1
    /\ ret.value.active_workers = 0

\* C15: enqueue with an id that already exists in the jobs table, in any
\* state, is reported as an error (the primary key violation) and leaves the
\* existing row and every other row unchanged.
C15_DuplicateIdRejected ==
    [][(ret'.op = "enqueue" /\ ret'.arg \in DOMAIN jobs) =>
          /\ ~ret'.ok
          /\ ret'.error = "UNIQUE constraint failed: jobs.id"
          /\ jobs' = jobs
          /\ dlq' = dlq
          /\ enqueued' = enqueued]_vars

\* enqueue has just been refused for the id of a job that has completed
C15_Witness ==
    /\ ret.op = "enqueue"
    /\ ~ret.ok
    /\ ret.arg \in DOMAIN jobs
    /\ jobs[ret.arg].state = "completed"
    /\ Cardinality(DOMAIN jobs) = 2

\* C16: a successful enqueue returns the caller-supplied id when one is
\* given (a generated one otherwise) and adds exactly one row, with that id,
\* in state pending with attempts = 0, locked_by = lock_until = last_error =
\* null, created_at = updated_at = the time of the call, the command and the
\* schedule of the request, max_retries 3 and priority 0 when the request has
\* none; the other rows are unchanged and the new row is in
\* list_by_state('pending').
C16_EnqueueRow ==
    [][(ret'.op = "enqueue" /\ ret'.ok) =>
          LET id == ret'.value
          IN  /\ id \notin DOMAIN jobs
              /\ DOMAIN jobs' = DOMAIN jobs \cup {id}
              /\ \A o \in DOMAIN jobs : jobs'[o] = jobs[o]
              /\ jobs'[id].id = id
              /\ jobs'[id].state = "pending"
              /\ jobs'[id].attempts = 0
              /\ jobs'[id].locked_by = NULL_S
              /\ jobs'[id].lock_until = NULL_T
              /\ jobs'[id].last_error = NULL_S
              /\ jobs'[id].created_at = now
              /\ jobs'[id].updated_at = jobs'[id].created_at
              /\ \E r \in Requests :
                    /\ IF r.id = Absent THEN id \in GenIds ELSE id = r.id
                    /\ jobs'[id].command = r.command
                    /\ jobs'[id].max_retries =
                           (IF r.max_retries = UNDEF THEN 3 ELSE r.max_retries)
                    /\ jobs'[id].priority =
                           (IF r.priority = UNDEF THEN 0 ELSE r.priority)
                    /\ RunAtInstant(jobs'[id]) =
                           (IF r.delay = NULL_T THEN NULL_T ELSE now + r.delay)
              /\ jobs'[id] \in (listByState("pending"))'
              /\ dlq' = dlq]_vars

\* enqueue has just returned the generated id of a job submitted without
\* max_retries, stored with max_retries 3, beside a job submitted without a
\* priority, stored with priority 0; both are listed as pending
C16_Witness ==
    /\ ret.op = "enqueue"
    /\ ret.ok
    /\ ret.value \in GenIds
    /\ jobs[ret.value].max_retries = 3
    /\ jobs[ret.value] \in listByState("pending")
    /\ "t1" \in DOMAIN jobs
    /\ jobs["t1"].priority = 0
    /\ jobs["t1"] \in listByState("pending")

\* C17: enqueue of a job without a command is rejected with an error and
\* adds no row to the jobs table: the store is unchanged.
C17_NoCommandRejected ==
    [][(ret'.op = "enqueue" /\ ret'.arg \in {r.id : r \in NoCommandRequests}) =>
          /\ ~ret'.ok
          /\ ret'.error # NULL_S
          /\ jobs' = jobs
          /\ dlq' = dlq
          /\ enqueued' = enqueued]_vars

\* enqueue of the job without a command has just been refused, with another
\* job in the table
C17_Witness ==
    /\ ret.op = "enqueue"
    /\ ret.arg \in {r.id : r \in NoCommandRequests}
    /\ ret.error = NOT_NULL_COMMAND
    /\ ret.arg \notin DOMAIN jobs
    /\ DOMAIN jobs # {}

\* C18: a job with max_retries = 0 is never in state failed; its command is
\* executed at most once, and once that execution has failed the job is dead
\* with its DLQ entry.
C18_ZeroRetries ==
    \A j \in DOMAIN jobs :
        jobs[j].max_retries = 0 =>
            /\ jobs[j].state # "failed"
            /\ Len(execs[j]) <= 1
            /\ execs[j] = <<FALSE>> =>
                   /\ jobs[j].state = "dead"
                   /\ DlqId(j) \in DOMAIN dlq
                   /\ dlq[DlqId(j)].job_id = j
            /\ jobs[j].state = "dead" => execs[j] = <<FALSE>>

\* a job with max_retries = 0 has been claimed once, has failed once and is
\* dead, with its entry in the DLQ
C18_Witness ==
    \E j \in DOMAIN jobs :
        /\ jobs[j].max_retries = 0
        /\ claims[j] = 1
        /\ execs[j] = <<FALSE>>
        /\ jobs[j].state = "dead"
        /\ jobs[j].last_error # NULL_S
        /\ DlqId(j) \in DOMAIN dlq

\* the worker process is in its loop: started, not dead, not returned
Running(w) == pc[w] \in {"loop", "claim", "reread", "config", "exec"}

\* the job has reached a final state
Resolved(j) == j \in DOMAIN jobs /\ jobs[j].state \in {"completed", "dead"}

\* the job waits for an instant that the clock, at its bound, will not
\* reach: the run_at of a pending or failed job, or the end of the lease a
\* dead worker has left on it
BeyondClock(j) ==
    /\ ticks = MaxTicks
    /\ j \in DOMAIN jobs
    /\ \/ /\ jobs[j].state \in {"pending", "failed"}
          /\ \/ (RunAtInstant(jobs[j]) # NULL_T /\ RunAtInstant(jobs[j]) > now)
             \/ (jobs[j].lock_until # NULL_T /\ jobs[j].lock_until > now)
       \/ /\ jobs[j].state = "processing"
          /\ jobs[j].lock_until > now
          /\ jobs[j].locked_by \in Workers
          /\ pc[jobs[j].locked_by] = "crashed"

\* C19: liveness.  If some worker keeps running its loop for ever (it does
\* not crash and does not return), every execution terminates and time
\* advances, then every enqueued job eventually reaches completed or dead
\* (or, the clock of the model being bounded, is left waiting for an instant
\* beyond the last one the clock reaches: a job whose lease has run out has
\* no such excuse).
C19_EventuallyResolved ==
    \A j \in JobIds :
        (\E w \in Workers : <>[]Running(w)) =>
            [](j \in DOMAIN jobs => <>(Resolved(j) \/ BeyondClock(j)))

\* C20: graceful shutdown.  Once the stop flag of a worker is set, the
\* worker claims no further job; the job in progress at that worker is
\* changed by that worker's resolution only, which leaves it completed,
\* failed or dead; a worker that has returned holds no job; and the loop
\* eventually returns, the job in progress having been resolved on the way
\* (unless the process is killed first).
C20_GracefulShutdown ==
    /\ [][\A w \in Workers : STOPPING[w] =>
             /\ \A j \in DOMAIN jobs :
                   (jobs'[j].locked_by = w /\ jobs'[j].state = "processing") =>
                       (jobs[j].locked_by = w /\ jobs[j].state = "processing")
             /\ (pc[w] = "exec" /\ pc'[w] # "crashed") =>
                   LET j == currentJob[w].id
                   IN  /\ jobs[j].state = "processing"
                       /\ \/ /\ jobs'[j].state = "processing"
                             /\ jobs'[j].locked_by = w
                             /\ pc'[w] = "exec"
                          \/ /\ jobs'[j].state \in {"completed", "failed", "dead"}
                             /\ currentJob'[w] = NoJob
                             /\ pc'[w] = "loop"]_vars
    /\ [](\A w \in Workers : pc[w] = "returned" =>
             /\ currentJob[w] = NoJob
             /\ \A j \in DOMAIN jobs :
                   ~(jobs[j].state = "processing" /\ jobs[j].locked_by = w))
    /\ \A w \in Signalled :
          STOPPING[w] ~> (pc[w] = "returned" \/ pc[w] = "crashed")

\* the long-running worker was sent a signal and has returned: the job it
\* had claimed is resolved, and a job that is eligible has been left unclaimed
C20_Witness ==
    /\ pc["w1"] = "returned"
    /\ ~SINGLE_RUN["w1"]
    /\ STOPPING["w1"]
    /\ pc["w2"] = "off"
    /\ \E j, k \in DOMAIN jobs :
          /\ claims[j] = 1
          /\ Len(execs[j]) = 1
          /\ jobs[j].state \in {"completed", "failed", "dead"}
          /\ claims[k] = 0
          /\ EligibleNow(k)
          /\ jobs[k].created_at <= jobs[j].updated_at

\* the workers started in single-run mode
SingleRunWorkers == {w \in Workers : SINGLE_RUN[w]}

\* C21: in single-run mode a worker claims at most one job over its
\* lifetime.  The step that ends the processing of its job leaves the job
\* completed, failed or dead and sets the stop flag, whatever the outcome;
\* the worker is then back at the loop test with the flag set, and its loop
\* eventually returns.
C21_SingleRun ==
    /\ [](\A w \in SingleRunWorkers : taken[w] <= 1)
    /\ [][\A w \in SingleRunWorkers :
             (pc[w] = "exec" /\ pc'[w] # "exec") =>
                 /\ jobs'[currentJob[w].id].state \in
                        {"completed", "failed", "dead"}
                 /\ Len(execs'[currentJob[w].id]) =
                        Len(execs[currentJob[w].id]) + 1
                 /\ STOPPING'[w]
                 /\ pc'[w] = "loop"]_vars
    /\ [](\A w \in SingleRunWorkers :
             (taken[w] = 1 /\ pc[w] = "loop") => STOPPING[w])
    /\ \A w \in SingleRunWorkers : (taken[w] = 1) ~> (pc[w] = "returned")

\* the single-run worker has returned after one claim, the job it processed
\* having failed and waiting for its retry, while another job that is
\* eligible is left unclaimed and no other worker has been started
C21_Witness ==
    /\ pc["w2"] = "returned"
    /\ SINGLE_RUN["w2"]
    /\ taken["w2"] = 1
    /\ pc["w1"] = "off"
    /\ \E j, k \in DOMAIN jobs :
          /\ jobs[j].state = "failed"
          /\ claims[j] = 1
          /\ execs[j] = <<FALSE>>
          /\ claims[k] = 0
          /\ EligibleNow(k)

\* b to the power k
RECURSIVE Power(_, _)
Power(b, k) == IF k = 0 THEN 1 ELSE b * Power(b, k - 1)

\* the strings that are the decimal form of a number from 0 to 9
Numerals == {ToString(n) : n \in 0..9}

\* the number whose decimal form is the stored string
NumberOf(str) == CHOOSE n \in 0..9 : ToString(n) = str

\* the backoff_base value stored in config as it stands, 2 when none is
\* stored; a stored text that is not a number is no base (NaN)
StoredBase ==
    IF "backoff_base" \notin DOMAIN config THEN 2
    ELSE IF config["backoff_base"] \in Numerals
         THEN NumberOf(config["backoff_base"])
         ELSE NaN

\* the base a worker works with: the stored number when there is one other
\* than 0, and 2 when nothing is stored, when 0 is stored and when the
\* stored text is not a number
WorkingBase == IF StoredBase \in 1..9 THEN StoredBase ELSE 2

\* what an attempt that fails within the retry budget leaves, for the base
\* the worker holds: the row failed and unlocked, scheduled base^attempts
\* seconds ahead; and the base is held for the length of the attempt
FailedAttempt(w) ==
    /\ (pc[w] = "exec" /\ pc'[w] = "exec") => base'[w] = base[w]
    /\ \A j \in DOMAIN jobs :
          ( /\ pc[w] = "exec"
            /\ currentJob[w].id = j
            /\ Len(execs'[j]) = Len(execs[j]) + 1
            /\ ~execs'[j][Len(execs'[j])]
            /\ jobs[j].attempts < jobs[j].max_retries )
          => /\ jobs'[j].state = "failed"
             /\ jobs'[j].locked_by = NULL_S
             /\ RunAtInstant(jobs'[j]) = now + Power(base[w], jobs[j].attempts)
             /\ jobs'[j].lock_until = RunAtInstant(jobs'[j])
             /\ jobs'[j].attempts = jobs[j].attempts

\* C22 as stated: when an attempt fails with attempts_now < max_retries, the
\* job is set to failed with locked_by = null and run_at = lock_until = now
\* + b^attempts_now, where b is the backoff_base value stored in config at
\* the time that attempt is processed (2 when none is stored).
C22_Original ==
    [][\A w \in Workers :
          /\ (pc[w] = "config" /\ pc'[w] = "exec") => base'[w] = StoredBase
          /\ FailedAttempt(w)]_vars

\* C22, amended: when an attempt fails with attempts_now < max_retries, the
\* job is set to failed with locked_by = null and run_at = lock_until = now +
\* b^attempts_now, where b is the backoff_base the worker read from config
\* when it began to process that attempt: the number stored at that moment,
\* and 2 when none is stored, when 0 is stored and when what is stored is
\* not a number.  A config change applies to the next attempt of a running
\* worker.
C22_Backoff ==
    [][\A w \in Workers :
          /\ (pc[w] = "config" /\ pc'[w] = "exec") => base'[w] = WorkingBase
          /\ FailedAttempt(w)]_vars

\* a job has failed twice; 3 was stored as the base at its first attempt
\* and 0 between its two attempts, without a restart of the worker: the
\* first retry was scheduled 3 seconds after the first failure, the second
\* 2^2 seconds after the second
C22_Witness ==
    \E j \in DOMAIN jobs :
        /\ jobs[j].state = "failed"
        /\ execs[j] = <<FALSE, FALSE>>
        /\ jobs[j].attempts = 2
        /\ jobs[j].updated_at = jobs[j].created_at + 3
        /\ RunAtInstant(jobs[j]) = jobs[j].updated_at + 4
        /\ taken["w1"] = 2
        /\ StoredBase = 0

\* C23: when the command of a claimed job succeeds, whatever the number of
\* earlier failed attempts, the step that resolves it writes the row as
\* completed with locked_by, lock_until and last_error null, leaves its other
\* fields, the other rows and the DLQ as they were; a completed row stays so
\* and the DLQ never holds an entry for it.
C23_SuccessCompletes ==
    /\ [][\A w \in Workers : \A j \in DOMAIN jobs :
             ( /\ pc[w] = "exec"
               /\ currentJob[w].id = j
               /\ Len(execs'[j]) = Len(execs[j]) + 1
               /\ execs'[j][Len(execs'[j])] )
             => /\ jobs'[j].state = "completed"
                /\ jobs'[j].locked_by = NULL_S
                /\ jobs'[j].lock_until = NULL_T
                /\ jobs'[j].last_error = NULL_S
                /\ jobs'[j].updated_at = now
                /\ jobs'[j].attempts = jobs[j].attempts
                /\ jobs'[j].run_at = jobs[j].run_at
                /\ \A o \in DOMAIN jobs \ {j} : jobs'[o] = jobs[o]
                /\ dlq' = dlq]_vars
    /\ [](\A j \in DOMAIN jobs :
             jobs[j].state = "completed" =>
                 /\ execs[j] # << >>
                 /\ execs[j][Len(execs[j])]
                 /\ jobs[j].locked_by = NULL_S
                 /\ jobs[j].lock_until = NULL_T
                 /\ jobs[j].last_error = NULL_S
                 /\ DlqEntriesOf(j) = {})

\* a job has completed at its second attempt, the first having failed, while
\* another job waits in the table
C23_Witness ==
    \E j \in DOMAIN jobs :
        /\ jobs[j].state = "completed"
        /\ execs[j] = <<FALSE, TRUE>>
        /\ jobs[j].attempts = 2
        /\ RunAtInstant(jobs[j]) # NULL_T
        /\ jobs[j].last_error = NULL_S
        /\ \E o \in DOMAIN jobs \ {j} : jobs[o].state = "pending"

\* what get answers for a key that is not stored, as the claim states it
DefaultOf(key) ==
    CASE key = "max_retries" -> "3"
      [] key = "backoff_base" -> "2"
      [] OTHER -> NULL_S

\* C24: config round trip.  A set(k, v) leaves exactly one entry for k, makes
\* get(k) answer v and leaves get of every other key as it was, whatever was
\* stored for k before; a step that is not a set changes get of no key; get
\* answers the stored value, and for a key never set the default ('3' for
\* max_retries, '2' for backoff_base) or null when there is none.
C24_ConfigRoundTrip ==
    /\ [][\A k \in ConfigKeys, v \in ConfigValues :
             set(k, v) =>
                 /\ (get(k))' = v
                 /\ DOMAIN config' = DOMAIN config \cup {k}
                 /\ \A o \in ConfigKeys \ {k} : (get(o))' = get(o)]_vars
    /\ [][(\A k \in ConfigKeys, v \in ConfigValues : ~set(k, v)) =>
             \A k \in ConfigKeys : (get(k))' = get(k)]_vars
    /\ [][ret'.op = "get" =>
             ret'.value = (IF ret'.arg \in DOMAIN config
                           THEN config[ret'.arg] ELSE DefaultOf(ret'.arg))]_vars
    /\ [](\A k \in ConfigKeys \ DOMAIN config : get(k) = DefaultOf(k))

\* get has just answered 12 for backoff_base, which is stored beside another
\* value for max_retries, and the key without a default is not stored
C24_Witness ==
    /\ ret.op = "get"
    /\ ret.arg = "backoff_base"
    /\ ret.value = "12"
    /\ config["backoff_base"] = "12"
    /\ "max_retries" \in DOMAIN config
    /\ config["max_retries"] = "abc"
    /\ "poll_interval" \notin DOMAIN config
    /\ get("poll_interval") = NULL_S

\* the decimal numeral of n
RECURSIVE Numeral(_)
Numeral(n) ==
    IF n < 0 THEN "-" \o Numeral(0 - n)
    ELSE IF n < 10 THEN ToString(n)
    ELSE Numeral(n \div 10) \o ToString(n % 10)

\* C25: the retry budget is configurable through config.  After config set
\* max_retries N, a job enqueued without a max_retries of its own is stored
\* with max_retries = N; and a job stored with max_retries = N whose command
\* has failed every time is dead exactly when it has failed N times.
C25_ConfiguredRetryBudget ==
    /\ [][\A r \in TuneRequests :
             ( /\ ret'.op = "enqueue"
               /\ ret'.ok
               /\ ret'.value = r.id
               /\ r.max_retries = UNDEF
               /\ "max_retries" \in DOMAIN config )
             => Numeral(jobs'[r.id].max_retries) = config["max_retries"]]_vars
    /\ [](\A j \in DOMAIN jobs :
             AllFailed(j) =>
                 (jobs[j].state = "dead" <=> Len(execs[j]) = jobs[j].max_retries))

\* the rows in processing under the lock of the worker
HeldBy(w) ==
    {j \in DOMAIN jobs : jobs[j].state = "processing" /\ jobs[j].locked_by = w}

\* C26: a claim (the UPDATE of claimJob, made by a worker in its loop)
\* changes exactly one job row when at least one job is eligible: an
\* eligible one, on which it sets state = processing, locked_by = the
\* worker, lock_until = now + 60, attempts = attempts + 1 and updated_at =
\* now, its other fields staying; the row the claim then returns to the
\* worker is that row.  When no job is eligible the claim returns null (the
\* worker stays idle) and no job row changes.  Every other job row and the
\* DLQ are unchanged in both cases.
C26_ClaimFrame ==
    /\ [][\A w \in Workers :
             ClaimUpdate(w) =>
                 /\ dlq' = dlq
                 /\ DOMAIN jobs' = DOMAIN jobs
                 /\ IF \E j \in DOMAIN jobs : EligibleNow(j)
                    THEN \E j \in DOMAIN jobs :
                            /\ EligibleNow(j)
                            /\ jobs'[j] =
                                   [jobs[j] EXCEPT !.state = "processing",
                                                   !.locked_by = w,
                                                   !.lock_until = now + 60,
                                                   !.attempts = @ + 1,
                                                   !.updated_at = now]
                            /\ \A o \in DOMAIN jobs \ {j} : jobs'[o] = jobs[o]
                            /\ HeldBy(w)' = {j}
                            /\ pc'[w] = "reread"
                    ELSE /\ jobs' = jobs
                         /\ pc'[w] = "loop"
                         /\ currentJob'[w] = NoJob]_vars
    /\ [][\A w \in Workers :
             (pc[w] = "reread" /\ pc'[w] # "crashed" /\ pc'[w] # "reread") =>
                 /\ \E j \in DOMAIN jobs :
                       /\ HeldBy(w) = {j}
                       /\ jobs[j].lock_until = jobs[j].updated_at + 60
                       /\ currentJob'[w] = jobs[j]
                 /\ pc'[w] = "config"
                 /\ jobs' = jobs
                 /\ dlq' = dlq]_vars

\* a claim has just taken one of two eligible jobs and handed its row to the
\* worker, the other eligible job being left as it was
C26_Witness ==
    \E w \in Workers : \E j, k \in DOMAIN jobs :
        /\ pc[w] = "exec"
        /\ currentJob[w] = jobs[j]
        /\ jobs[j].updated_at = now
        /\ jobs[j].lock_until = now + 60
        /\ jobs[j].attempts = 1
        /\ EligibleNow(k)
        /\ claims[k] = 0
        /\ jobs[k].updated_at = jobs[k].created_at

\* C27: a lock refresh by worker w changes only the lock_until of w's
\* current job, which it sets to now + 60, and only while that job's
\* locked_by equals w; the row's state, attempts, locked_by, run_at and
\* every other field stay, and no row whose locked_by is not w changes in
\* any field; the DLQ is unchanged.
C27_RefreshFrame ==
    [][\A w \in Workers :
          RefreshLock(w) =>
              /\ DOMAIN jobs' = DOMAIN jobs
              /\ \A j \in DOMAIN jobs :
                    /\ jobs'[j] = [jobs[j] EXCEPT !.lock_until = jobs'[j].lock_until]
                    /\ jobs'[j] # jobs[j] =>
                           /\ j = currentJob[w].id
                           /\ jobs[j].locked_by = w
                           /\ jobs'[j].lock_until = now + 60
                    /\ jobs[j].locked_by # w => jobs'[j] = jobs[j]
              /\ dlq' = dlq]_vars

\* both workers hold a job; the lease of one has been extended by a refresh
\* later than its claim, the row of the other is as its claim left it
C27_Witness ==
    \E j, k \in DOMAIN jobs :
        /\ jobs[j].state = "processing"
        /\ jobs[j].locked_by = "w1"
        /\ jobs[j].lock_until = now + 60
        /\ jobs[j].updated_at < now
        /\ jobs[j].attempts = 1
        /\ jobs[k].state = "processing"
        /\ jobs[k].locked_by = "w2"
        /\ jobs[k].lock_until = jobs[k].updated_at + 60

\* C28: the lock refresher of a job never writes once the job's outcome has
\* been written.  The interval of a worker is live only while the worker is
\* executing the command of its current job, whose row is then in processing
\* under its lock; every refresh acts on a row that is in processing before
\* and after it; and the lock fields of a row written as completed, failed
\* or dead change only when a later claim takes the (failed) row.
C28_RefreshBeforeResolution ==
    /\ [](\A w \in Workers :
             refreshAt[w] # NULL_T =>
                 /\ pc[w] \in {"config", "exec"}
                 /\ currentJob[w] # NoJob
                 /\ currentJob[w].id \in HeldBy(w))
    /\ [][\A w \in Workers :
             RefreshLock(w) =>
                 /\ jobs[currentJob[w].id].state = "processing"
                 /\ jobs'[currentJob[w].id].state = "processing"
                 /\ \A j \in DOMAIN jobs :
                       jobs[j].state # "processing" => jobs'[j] = jobs[j]]_vars
    /\ [][\A j \in DOMAIN jobs :
             jobs[j].state \in {"completed", "failed", "dead"} =>
                 \/ /\ jobs'[j].lock_until = jobs[j].lock_until
                    /\ jobs'[j].locked_by = jobs[j].locked_by
                    /\ jobs'[j].state = jobs[j].state
                 \/ /\ jobs[j].state = "failed"
                    /\ jobs'[j].state = "processing"
                    /\ claims'[j] = claims[j] + 1]_vars

\* a job has failed at a time at which the refresher of its worker had
\* come due: its row carries the lock fields the resolution wrote, and no
\* worker has an interval left
C28_Witness ==
    \E j \in DOMAIN jobs :
        /\ jobs[j].state = "failed"
        /\ jobs[j].locked_by = NULL_S
        /\ jobs[j].lock_until = RunAtInstant(jobs[j])
        /\ jobs[j].updated_at >= jobs[j].created_at + REFRESH_SECONDS
        /\ execs[j] = <<FALSE>>
        /\ \A w \in Workers : refreshAt[w] = NULL_T

\* the worker makes a heartbeat in this step: the one before its loop, or
\* the one of a loop iteration
Heartbeats(w) == WorkerStart(w) \/ (LoopHeartbeat(w) /\ ~STOPPING[w])

\* C29: every heartbeat of worker w leaves exactly one workers row for w,
\* whose heartbeat_at is the time of that heartbeat and whose started_at is
\* the time of w's first heartbeat: the first heartbeat writes started_at =
\* now and no later step changes it.  Rows of other workers are unchanged,
\* and a step without a heartbeat changes no row.
C29_Heartbeat ==
    /\ [][\A w \in Workers :
             Heartbeats(w) =>
                 /\ DOMAIN workersTbl' = DOMAIN workersTbl \cup {w}
                 /\ workersTbl'[w].id = w
                 /\ workersTbl'[w].heartbeat_at = now
                 /\ workersTbl'[w].started_at =
                        (IF w \in DOMAIN workersTbl
                         THEN workersTbl[w].started_at ELSE now)
                 /\ \A o \in DOMAIN workersTbl \ {w} :
                       workersTbl'[o] = workersTbl[o]]_vars
    /\ [][(\A w \in Workers : ~Heartbeats(w)) => workersTbl' = workersTbl]_vars
    /\ [][\A w \in DOMAIN workersTbl :
             /\ w \in DOMAIN workersTbl'
             /\ workersTbl'[w].started_at = workersTbl[w].started_at
             /\ workersTbl'[w].heartbeat_at >= workersTbl[w].heartbeat_at]_vars
    /\ [](\A w \in DOMAIN workersTbl :
             /\ workersTbl[w].id = w
             /\ pc[w] # "off"
             /\ workersTbl[w].started_at <= workersTbl[w].heartbeat_at)

\* one worker, started at time 0, has made a heartbeat at a later time; the
\* row of the other worker, started in between or at the same time, still
\* shows its own values
C29_Witness ==
    \E w, o \in DOMAIN workersTbl :
        /\ w # o
        /\ workersTbl[w].started_at = 0
        /\ workersTbl[w].heartbeat_at = now
        /\ now > 0
        /\ workersTbl[o].heartbeat_at < now
        /\ workersTbl[o].started_at = workersTbl[o].heartbeat_at

\* the stored value of the key, or its default, or null
StoredOrDefault(key) ==
    IF key \in DOMAIN config THEN config[key] ELSE DefaultOf(key)

\* C30: get_int(key) returns the integer value of the stored (or default)
\* config string; it returns 0 when the key has neither a stored value nor a
\* default, and 0 when the value cannot be parsed as an integer (here: when
\* the value has no leading digit at all).
C30_GetInt ==
    [][ret'.op = "getInt" =>
          LET val == StoredOrDefault(ret'.arg)
          IN  /\ val = NULL_S => ret'.value = 0
              /\ (val # NULL_S /\ \E n \in -20..20 : Numeral(n) = val) =>
                     Numeral(ret'.value) = val
              /\ (val # NULL_S /\ DigitPrefix(val) = << >>
                    /\ (val = "" \/ Head(val) \notin {"-", "+", " "})) =>
                     ret'.value = 0]_vars

\* C31: the only state changes of a job row are pending -> processing and
\* failed -> processing, made by the claim of a worker in its loop, and
\* processing -> completed, processing -> failed and processing -> dead,
\* made by the resolution of the worker that holds the row; a row that is
\* completed or dead is never claimed and never changes state again.
C31_StateMachine ==
    [][\A j \in DOMAIN jobs :
          /\ j \in DOMAIN jobs'
          /\ jobs'[j].state # jobs[j].state =>
                \/ /\ jobs[j].state \in {"pending", "failed"}
                   /\ jobs'[j].state = "processing"
                   /\ claims'[j] = claims[j] + 1
                   /\ \E w \in Workers :
                         /\ pc[w] = "claim"
                         /\ pc'[w] = "reread"
                         /\ jobs'[j].locked_by = w
                \/ /\ jobs[j].state = "processing"
                   /\ jobs'[j].state \in {"completed", "failed", "dead"}
                   /\ Len(execs'[j]) = Len(execs[j]) + 1
                   /\ \E w \in Workers :
                         /\ jobs[j].locked_by = w
                         /\ currentJob[w].id = j
                         /\ pc[w] = "exec"
                         /\ pc'[w] = "loop"
          /\ jobs[j].state \in {"completed", "dead"} =>
                /\ jobs'[j].state = jobs[j].state
                /\ claims'[j] = claims[j]]_vars

\* one job has gone pending, processing, failed, processing, dead; another
\* has gone pending, processing, completed
C31_Witness ==
    \E j, k \in DOMAIN jobs :
        /\ jobs[j].state = "dead"
        /\ claims[j] = 2
        /\ execs[j] = <<FALSE, FALSE>>
        /\ jobs[k].state = "completed"
        /\ claims[k] = 1
        /\ execs[k] = <<TRUE>>

\* C32: for every job, attempts equals the number of claims performed on
\* the job since its row was created: a claim of the job increases it by
\* exactly 1, no other step changes it, and attempts = 0 if and only if the
\* job has never been claimed.
C32_AttemptsCountClaims ==
    /\ [](\A j \in DOMAIN jobs :
             /\ jobs[j].attempts = claims[j]
             /\ jobs[j].attempts = 0 <=> claims[j] = 0)
    /\ [][\A j \in DOMAIN jobs :
             /\ jobs'[j].attempts = jobs[j].attempts + claims'[j] - claims[j]
             /\ claims'[j] - claims[j] \in {0, 1}
             /\ jobs'[j].attempts # jobs[j].attempts =>
                   /\ jobs[j].state \in {"pending", "failed"}
                   /\ jobs'[j].state = "processing"]_vars

\* a job claimed twice has attempts = 2 after its second resolution, beside
\* a job that was never claimed and has attempts = 0
C32_Witness ==
    \E j, k \in DOMAIN jobs :
        /\ claims[j] = 2
        /\ jobs[j].attempts = 2
        /\ Len(execs[j]) = 2
        /\ claims[k] = 0
        /\ jobs[k].attempts = 0
        /\ jobs[k].state = "pending"

\* C33: CLI enqueue with a JSON payload.  A max_retries or priority given in
\* the payload is kept in the stored job whenever the corresponding flag
\* (--max-retries, --priority) is not passed; a flag that is passed gives the
\* stored value.
C33_PayloadKept ==
    [][\A payload \in CliPayloads, flags \in CliOptions :
          ( /\ \E nanoid \in GenIds : cliEnqueue(payload, flags, nanoid)
            /\ ret'.op = "enqueue"
            /\ ret'.ok )
          => LET row == jobs'[ret'.value]
             IN  /\ flags.maxRetries # Absent =>
                        Numeral(row.max_retries) = flags.maxRetries
                 /\ flags.priority # Absent =>
                        Numeral(row.priority) = flags.priority
                 /\ (flags.maxRetries = Absent /\ payload.kind = "object"
                       /\ payload.max_retries # UNDEF) =>
                        row.max_retries = payload.max_retries
                 /\ (flags.priority = Absent /\ payload.kind = "object"
                       /\ payload.priority # UNDEF) =>
                        row.priority = payload.priority]_vars

\* the row of the worker alone, as status() would find it in the table
RowOf(w) == [x \in {w} \cap DOMAIN workersTbl |-> workersTbl[x]]

\* C34: at every instant, every worker that is running (started, not
\* crashed, loop not returned) is counted in status().active_workers,
\* whether it is idle or in the middle of executing a job of any duration up
\* to the 30 s command timeout.  Stated of the time a command takes: a
\* worker that the SELECT on workers of status() counts while it executes a
\* command is still counted after any step that leaves it executing that
\* command no later than 30 s after the claim, so that no worker drops out
\* of the count because the command it runs takes its time.
C34_RunningCounted ==
    [][\A w \in Workers :
          ( /\ pc[w] = "exec"
            /\ pc'[w] = "exec"
            /\ ActiveWorkers(RowOf(w), now) = 1
            /\ now' <= currentJob[w].updated_at + COMMAND_TIMEOUT )
          => /\ ActiveWorkers(RowOf(w)', now') = 1
             /\ status'.active_workers >= 1]_vars

\* C35: in every reachable state each worker id is the locked_by of at most
\* one job in state processing: none while the worker is off, idle or
\* returned, the job it processes while it processes one, and, between the
\* UPDATE and the SELECT of a claim, the one row that UPDATE has just stamped
\* (lock_until = updated_at + 60), which is therefore the row the SELECT by
\* locked_by = worker and state = processing returns.
C35_OneJobPerWorker ==
    /\ \A w \in Workers :
         /\ Cardinality(HeldBy(w)) <= 1
         /\ pc[w] \in {"off", "loop", "claim", "returned"} => HeldBy(w) = {}
         /\ pc[w] \in {"config", "exec"} => HeldBy(w) = {currentJob[w].id}
         /\ pc[w] = "reread" =>
                /\ Reread(jobs, w) = HeldBy(w)
                /\ \E j \in DOMAIN jobs :
                      /\ HeldBy(w) = {j}
                      /\ jobs[j].lock_until = jobs[j].updated_at + 60
                      /\ jobs[j].attempts = claims[j]
    /\ \A w, o \in Workers : w # o => HeldBy(w) \cap HeldBy(o) = {}

\* a worker is between the UPDATE and the SELECT of its second claim: the
\* job of its first claim is resolved and the one row under its lock is
\* the row of the second claim
C35_Witness ==
    \E w \in Workers : \E j, k \in DOMAIN jobs :
        /\ j # k
        /\ pc[w] = "reread"
        /\ taken[w] = 2
        /\ HeldBy(w) = {j}
        /\ Reread(jobs, w) = {j}
        /\ jobs[k].state \in {"completed", "dead"}
        /\ claims[k] = 1

\* the fields of a job row that are fixed when the job is enqueued
Fixed(row) ==
    <<row.id, row.command, row.max_retries, row.priority, row.created_at>>

\* C36: the jobs table is append-only: no step (claim, resolution, move to
\* the DLQ, dlqRetry, lock refresh, or any other) removes a job row or
\* changes a row's id, command, max_retries, priority or created_at, and at
\* every moment the ids in the table are exactly the ids of the calls of
\* enqueue that succeeded, each row filed under its own id.
C36_AppendOnly ==
    /\ [](/\ DOMAIN jobs = enqueued
          /\ \A j \in DOMAIN jobs : jobs[j].id = j)
    /\ [][\A j \in DOMAIN jobs :
             /\ j \in DOMAIN jobs'
             /\ Fixed(jobs'[j]) = Fixed(jobs[j])]_vars

\* a job was claimed, failed and moved to the DLQ, time has passed, and a
\* dlqRetry of its entry has just been attempted; both jobs submitted are
\* in the table
C36_Witness ==
    \E j \in DOMAIN jobs :
        /\ jobs[j].state = "dead"
        /\ claims[j] >= 1
        /\ DlqRow(jobs[j]).id \in DOMAIN dlq
        /\ ret.op = "dlqRetry"
        /\ ret.arg = DlqRow(jobs[j]).id
        /\ now > jobs[j].created_at
        /\ Cardinality(DOMAIN jobs) = 2
        /\ DOMAIN jobs = enqueued
====
